---- MODULE Spec2Model ----
(***************************************************************************)
(* A model of `please`: the Probe's turn engine (cli/turn.rs), the Hub     *)
(* (hub.rs), the framed transport (protocol.rs) and the Harmony streaming  *)
(* parser (harmony.rs).  Strings are sequences of one-character strings,   *)
(* wire bytes are sequences of numbers in 0..255.                          *)
(***************************************************************************)
EXTENDS Integers, Sequences, FiniteSets, TLC

(***************************************************************************)
(* Text helpers (Rust str operations used by the parser).                  *)
(***************************************************************************)
SetMin(S) == CHOOSE x \in S : \A y \in S : x <= y

SetMax(S) == CHOOSE x \in S : \A y \in S : y <= x

\* s[n+1..]
DropFirst(s, n) == SubSeq(s, n + 1, Len(s))

\* str::find: 1-based index of the first occurrence of t in s, 0 for None
Find(s, t) ==
  LET hits == {i \in 1..(Len(s) - Len(t) + 1) : SubSeq(s, i, i + Len(t) - 1) = t}
  IN IF hits = {} THEN 0 ELSE SetMin(hits)

StartsWith(s, t) == Len(t) <= Len(s) /\ SubSeq(s, 1, Len(t)) = t

EndsWith(s, t) == Len(t) <= Len(s) /\ SubSeq(s, Len(s) - Len(t) + 1, Len(s)) = t

IsWhitespace(c) == c \in {" ", "\t", "\n", "\r"}

\* str::trim
Trim(s) ==
  LET keep == {i \in 1..Len(s) : ~IsWhitespace(s[i])}
  IN IF keep = {} THEN <<>> ELSE SubSeq(s, SetMin(keep), SetMax(keep))

RECURSIVE split_whitespace(_)
\* str::split_whitespace, collected
split_whitespace(s) ==
  LET keep == {i \in 1..Len(s) : ~IsWhitespace(s[i])}
  IN IF keep = {} THEN <<>>
     ELSE LET b  == SetMin(keep)
              ws == {i \in b..Len(s) : IsWhitespace(s[i])}
              e  == IF ws = {} THEN Len(s) + 1 ELSE SetMin(ws)
          IN <<SubSeq(s, b, e - 1)>> \o split_whitespace(SubSeq(s, e, Len(s)))

(***************************************************************************)
(* Harmony tags and names.                                                 *)
(***************************************************************************)
StartTag == <<"<","|","s","t","a","r","t","|",">">>

EndTag == <<"<","|","e","n","d","|",">">>

HeaderEndTag == <<"<","|","m","e","s","s","a","g","e","|",">">>

ChannelTag == <<"<","|","c","h","a","n","n","e","l","|",">">>

ConstrainTag == <<"<","|","c","o","n","s","t","r","a","i","n","|",">">>

\* the tag the renderer closes a tool-call segment with (templating.rs:37)
CallTag == <<"<","|","c","a","l","l","|",">">>

ImplicitStart == <<"<","|","s","t","a","r","t","|",">","a","s","s","i","s","t","a","n","t">>

ToPrefix == <<"t","o","=">>

FunctionsPrefix == <<"f","u","n","c","t","i","o","n","s",".">>

ToolRole == <<"t","o","o","l">>

Analysis == <<"a","n","a","l","y","s","i","s">>

Commentary == <<"c","o","m","m","e","n","t","a","r","y">>

Final == <<"f","i","n","a","l">>

(***************************************************************************)
(* HarmonyParser (harmony.rs).                                             *)
(***************************************************************************)
EmptyHeader == [role |-> <<>>, channel |-> <<>>, recipient |-> <<>>]

\* HarmonyEvent, one record shape for the four variants
Event(t, h, c) == [type |-> t, header |-> h, content |-> c]

MessageStart == Event("MessageStart", EmptyHeader, <<>>)

MessageEnd == Event("MessageEnd", EmptyHeader, <<>>)

HeaderComplete(h) == Event("HeaderComplete", h, <<>>)

ContentEmitted(c) == Event("ContentEmitted", EmptyHeader, c)

\* HarmonyParser::new
NewParser == [state |-> "LookingForMessageStart", acc |-> <<>>]

\* HarmonyParser::add_implicit_start
add_implicit_start(p) == [p EXCEPT !.acc = p.acc \o ImplicitStart]

\* HarmonyParser::parse_header
parse_header(raw_in) ==
  LET c    == Find(raw_in, ConstrainTag)
      raw1 == IF c > 0
              THEN Trim(SubSeq(raw_in, 1, c - 1) \o <<" ">> \o DropFirst(raw_in, c - 1))
              ELSE raw_in
      ch   == Find(raw1, ChannelTag)
      after  == DropFirst(raw1, ch - 1 + Len(ChannelTag))
      ws     == {i \in 1..Len(after) : IsWhitespace(after[i])}
      end    == IF ws = {} THEN Len(after) ELSE SetMin(ws) - 1
      channel == IF ch > 0 THEN SubSeq(after, 1, end) ELSE <<>>
      raw2 == IF ch > 0
              THEN Trim(SubSeq(raw1, 1, ch - 1) \o DropFirst(after, end))
              ELSE raw1
      tokens == split_whitespace(raw2)
  IN IF tokens = <<>> THEN [role |-> <<>>, channel |-> channel, recipient |-> <<>>]
     ELSE LET first == tokens[1]
              rcp1  == IF StartsWith(first, ToPrefix) THEN DropFirst(first, Len(ToPrefix)) ELSE <<>>
              role  == IF StartsWith(first, ToPrefix) THEN ToolRole ELSE first
              rcp2  == IF rcp1 = <<>> /\ Len(tokens) >= 2 /\ StartsWith(tokens[2], ToPrefix)
                       THEN DropFirst(tokens[2], Len(ToPrefix)) ELSE rcp1
          IN [role |-> role, channel |-> channel, recipient |-> rcp2]

\* A plausible slip of overlap: nothing is ever held back.
overlap_none(s, delim) == 0

\* What can go wrong when one character more than the overlap is held back.
overlap_one_more(s, delim) ==
  LET max  == IF Len(delim) < Len(s) THEN Len(delim) ELSE Len(s)
      hits == {i \in 1..max : EndsWith(s, SubSeq(delim, 1, i))}
  IN IF hits = {} THEN 0
     ELSE IF SetMax(hits) < Len(s) THEN SetMax(hits) + 1 ELSE SetMax(hits)

\* overlap: length of the longest suffix of s that is a prefix of delim
overlap(s, delim) ==
  LET max  == IF Len(delim) < Len(s) THEN Len(delim) ELSE Len(s)
      hits == {i \in 1..max : EndsWith(s, SubSeq(delim, 1, i))}
  IN IF hits = {} THEN 0 ELSE SetMax(hits)

\* HarmonyParser::advance: one step; the parser after it, the events, and whether to go on
advance(p) ==
  IF p.state = "LookingForMessageStart" THEN
    LET idx == Find(p.acc, StartTag)
    IN IF idx > 0
       THEN [p |-> [state |-> "ParsingHeader",
                    acc |-> DropFirst(p.acc, idx - 1 + Len(StartTag))],
             events |-> <<MessageStart>>, cont |-> TRUE]
       ELSE [p |-> p, events |-> <<>>, cont |-> FALSE]
  ELSE IF p.state = "ParsingHeader" THEN
    LET idx == Find(p.acc, HeaderEndTag)
    IN IF idx > 0
       THEN [p |-> [state |-> "ParsingContent",
                    acc |-> DropFirst(p.acc, idx - 1 + Len(HeaderEndTag))],
             events |-> <<HeaderComplete(parse_header(SubSeq(p.acc, 1, idx - 1)))>>,
             cont |-> TRUE]
       ELSE [p |-> p, events |-> <<>>, cont |-> FALSE]
  ELSE
    LET idx == Find(p.acc, EndTag)
        ov  == overlap(p.acc, EndTag)
        content == SubSeq(p.acc, 1, idx - 1)
        emit == SubSeq(p.acc, 1, Len(p.acc) - ov)
    IN IF idx > 0
       THEN [p |-> [state |-> "LookingForMessageStart",
                    acc |-> DropFirst(p.acc, idx - 1 + Len(EndTag))],
             events |-> (IF content # <<>> THEN <<ContentEmitted(content)>> ELSE <<>>)
                        \o <<MessageEnd>>,
             cont |-> TRUE]
       ELSE IF ov > 0
       THEN [p |-> [p EXCEPT !.acc = DropFirst(p.acc, Len(p.acc) - ov)],
             events |-> IF emit = <<>> THEN <<>> ELSE <<ContentEmitted(emit)>>,
             cont |-> FALSE]
       ELSE [p |-> [p EXCEPT !.acc = <<>>],
             events |-> IF p.acc = <<>> THEN <<>> ELSE <<ContentEmitted(p.acc)>>,
             cont |-> FALSE]

RECURSIVE advance_loop(_, _)
\* What can go wrong when the events of a step are put in front of the list.
advance_loop_reversed(p, events) ==
  LET r == advance(p)
  IN IF r.cont THEN advance_loop(r.p, r.events \o events)
     ELSE [p |-> r.p, events |-> r.events \o events]

\* the while keep_parsing loop of add_content
advance_loop(p, events) ==
  LET r == advance(p)
  IN IF r.cont THEN advance_loop(r.p, events \o r.events)
     ELSE [p |-> r.p, events |-> events \o r.events]

\* What can go wrong when add_content forgets what earlier calls left in the buffer.
add_content_forgetful(p, content) == advance_loop([p EXCEPT !.acc = content], <<>>)

\* HarmonyParser::add_content: the parser after the call and the returned events
add_content(p, content) == advance_loop([p EXCEPT !.acc = p.acc \o content], <<>>)

(***************************************************************************)
(* Frames and their postcard encoding (protocol.rs).                       *)
(***************************************************************************)
\* protocol::Message
Msg(role, text) == [role |-> role, text |-> text]

\* protocol::Frame, one record shape for the four variants
Request(messages) == [tag |-> "Request", messages |-> messages, text |-> <<>>]

Log(text) == [tag |-> "Log", messages |-> <<>>, text |-> text]

Answer(text) == [tag |-> "Answer", messages |-> <<>>, text |-> text]

Stop == [tag |-> "Stop", messages |-> <<>>, text |-> <<>>]

\* serde variant indices, in declaration order
MessageRoles == <<"System", "Developer", "User", "Reasoning", "Tool", "Assistant">>

FrameTags == <<"Request", "Log", "Answer", "Stop">>

IndexOf(seq, x) == CHOOSE i \in 1..Len(seq) : seq[i] = x

RECURSIVE varint(_)
\* postcard's varint (LEB128) of a number
varint(n) == IF n < 128 THEN <<n>> ELSE <<(n % 128) + 128>> \o varint(n \div 128)

EncString(t) == varint(Len(t)) \o t

EncMessage(m) == varint(IndexOf(MessageRoles, m.role) - 1) \o EncString(m.text)

RECURSIVE EncMessages(_)
EncMessages(ms) == IF ms = <<>> THEN <<>> ELSE EncMessage(Head(ms)) \o EncMessages(Tail(ms))

\* postcard::to_allocvec(&frame)
EncFrame(f) ==
  varint(IndexOf(FrameTags, f.tag) - 1) \o
  (IF f.tag = "Request" THEN varint(Len(f.messages)) \o EncMessages(f.messages)
   ELSE IF f.tag = "Stop" THEN <<>>
   ELSE EncString(f.text))

RECURSIVE EncFrames(_)
\* frames written back to back
EncFrames(fs) == IF fs = <<>> THEN <<>> ELSE EncFrame(Head(fs)) \o EncFrames(Tail(fs))

\* results of the decoding steps: a value and the rest, need more bytes, or an error
Got(v, rest) == [kind |-> "ok", val |-> v, rest |-> rest]

NeedMore == [kind |-> "need", val |-> 0, rest |-> <<>>]

Broken == [kind |-> "err", val |-> 0, rest |-> <<>>]

RECURSIVE take_varint(_, _)
\* a varint of at most max bytes
take_varint(b, max) ==
  IF b = <<>> THEN NeedMore
  ELSE IF b[1] < 128 THEN Got(b[1], Tail(b))
  ELSE IF max = 1 THEN Broken
  ELSE LET r == take_varint(Tail(b), max - 1)
       IN IF r.kind = "ok" THEN Got((b[1] - 128) + 128 * r.val, r.rest) ELSE r

RECURSIVE Utf8Valid(_)
\* core::str::from_utf8 succeeds (lead byte followed by its continuation bytes)
Utf8Valid(b) ==
  IF b = <<>> THEN TRUE
  ELSE LET n == IF b[1] < 128 THEN 1
                ELSE IF b[1] \in 194..223 THEN 2
                ELSE IF b[1] \in 224..239 THEN 3
                ELSE IF b[1] \in 240..244 THEN 4
                ELSE 0
       IN /\ n > 0
          /\ Len(b) >= n
          /\ \A i \in 2..n : b[i] \in 128..191
          /\ Utf8Valid(DropFirst(b, n))

take_string(b) ==
  LET r == take_varint(b, 10)
  IN IF r.kind # "ok" THEN r
     ELSE IF Len(r.rest) < r.val THEN NeedMore
     ELSE IF ~Utf8Valid(SubSeq(r.rest, 1, r.val)) THEN Broken
     ELSE Got(SubSeq(r.rest, 1, r.val), DropFirst(r.rest, r.val))

take_message(b) ==
  LET v == take_varint(b, 5)
  IN IF v.kind # "ok" THEN v
     ELSE IF v.val >= Len(MessageRoles) THEN Broken
     ELSE LET t == take_string(v.rest)
          IN IF t.kind # "ok" THEN t ELSE Got(Msg(MessageRoles[v.val + 1], t.val), t.rest)

RECURSIVE take_messages(_, _, _)
take_messages(b, n, acc) ==
  IF n = 0 THEN Got(acc, b)
  ELSE LET m == take_message(b)
       IN IF m.kind # "ok" THEN m ELSE take_messages(m.rest, n - 1, Append(acc, m.val))

\* postcard::take_from_bytes::<Frame>: one frame and the rest, need more, or an error
take_from_bytes(b) ==
  LET v == take_varint(b, 5)
  IN IF v.kind # "ok" THEN v
     ELSE IF v.val >= Len(FrameTags) THEN Broken
     ELSE IF FrameTags[v.val + 1] = "Stop" THEN Got(Stop, v.rest)
     ELSE IF FrameTags[v.val + 1] = "Request" THEN
       LET n == take_varint(v.rest, 10)
       IN IF n.kind # "ok" THEN n
          ELSE LET ms == take_messages(n.rest, n.val, <<>>)
               IN IF ms.kind # "ok" THEN ms ELSE Got(Request(ms.val), ms.rest)
     ELSE LET t == take_string(v.rest)
          IN IF t.kind # "ok" THEN t
             ELSE Got(IF FrameTags[v.val + 1] = "Log" THEN Log(t.val) ELSE Answer(t.val),
                      t.rest)

(***************************************************************************)
(* FunctionNameMap (harmony.rs), over ASCII names.                         *)
(***************************************************************************)
RECURSIVE Digits(_)
\* the decimal digits of a number
Digits(n) ==
  LET d == <<"0", "1", "2", "3", "4", "5", "6", "7", "8", "9">>
  IN IF n < 10 THEN <<d[n + 1]>> ELSE Digits(n \div 10) \o <<d[(n % 10) + 1]>>

RunCommand == <<"r","u","n","_","c","o","m","m","a","n","d">>

ApplyPatch == <<"a","p","p","l","y","_","p","a","t","c","h">>

ReadFile == <<"r","e","a","d","_","f","i","l","e">>

ListFiles == <<"l","i","s","t","_","f","i","l","e","s">>

\* all_tools()
ExposedTools == {ListFiles, ReadFile, RunCommand, ApplyPatch}

\* char::is_ascii_digit
AsciiDigits == {"0", "1", "2", "3", "4", "5", "6", "7", "8", "9"}

\* char::is_ascii_alphanumeric
AsciiAlphanumerics ==
  AsciiDigits \cup
  {"a","b","c","d","e","f","g","h","i","j","k","l","m","n","o","p","q","r","s","t","u","v","w",
   "x","y","z","A","B","C","D","E","F","G","H","I","J","K","L","M","N","O","P","Q","R","S","T",
   "U","V","W","X","Y","Z"}

\* FunctionNameMap::new: the two HashMaps, as functions on their keys
NewNameMap == [user_to_harmony |-> <<>>, harmony_to_user |-> <<>>]

\* HashMap::insert
Insert(map, key, value) ==
  [k \in DOMAIN map \cup {key} |-> IF k = key THEN value ELSE map[k]]

RECURSIVE valid_chars(_)
\* the loop of convert_to_valid_chars: separators become '_', identifier
\* characters stay, anything else is dropped
valid_chars(name) ==
  IF name = <<>> THEN <<>>
  ELSE (IF Head(name) \in {" ", "-", "."} THEN <<"_">>
        ELSE IF Head(name) \in {"_", "$"} \cup AsciiAlphanumerics THEN <<Head(name)>>
        ELSE <<>>) \o valid_chars(Tail(name))

\* FunctionNameMap::convert_to_valid_chars
convert_to_valid_chars(user_function_name) ==
  LET out == valid_chars(user_function_name)
  IN IF out = <<>> THEN <<"u","n","n","a","m","e","d">>
     ELSE IF Head(out) \in AsciiDigits THEN <<"_">> \o out
     ELSE out

RECURSIVE derive_loop(_, _, _, _)
\* the loop of derive_name
derive_loop(m, original_candidate, candidate, count) ==
  IF candidate \notin DOMAIN m.harmony_to_user THEN candidate
  ELSE derive_loop(m, original_candidate, original_candidate \o <<"_">> \o Digits(count),
                   count + 1)

\* FunctionNameMap::derive_name
derive_name(m, user_function_name) ==
  LET original_candidate == convert_to_valid_chars(user_function_name)
  IN derive_loop(m, original_candidate, original_candidate, 2)

\* the names convert_and_add does not rename
BuiltIns ==
  {<<"b","r","o","w","s","e","r",".","o","p","e","n">>,
   <<"b","r","o","w","s","e","r",".","s","e","a","r","c","h">>,
   <<"b","r","o","w","s","e","r",".","f","i","n","d">>,
   <<"p","y","t","h","o","n">>}

\* FunctionNameMap::convert_and_add: the map after the call and the name returned
convert_and_add(m, user_function_name) ==
  LET harmony == IF user_function_name \in BuiltIns THEN user_function_name
                 ELSE derive_name(m, user_function_name)
  IN [m |-> [user_to_harmony |-> Insert(m.user_to_harmony, user_function_name, harmony),
             harmony_to_user |-> Insert(m.harmony_to_user, harmony, user_function_name)],
      harmony |-> harmony]

\* FunctionNameMap::original_from_converted
original_from_converted(m, harmony_function_name) ==
  IF harmony_function_name \in DOMAIN m.harmony_to_user
    THEN m.harmony_to_user[harmony_function_name]
    ELSE harmony_function_name

RECURSIVE init_names(_, _)
\* the loop of HarmonyMessageHandler::init over the tools
init_names(m, tools) ==
  IF tools = <<>> THEN m ELSE init_names(convert_and_add(m, Head(tools)).m, Tail(tools))

\* the handler's function_name_map after init(to_harmony(all_tools()), None)
ToolNameMap == init_names(NewNameMap, <<ListFiles, ReadFile, RunCommand, ApplyPatch>>)

(***************************************************************************)
(* HarmonyMessageHandler: channel routing and tool-call assembly           *)
(* (harmony.rs).                                                           *)
(***************************************************************************)
\* the element of a one-element set; a name bound over {e} holds the value of e
One(S) == CHOOSE x \in S : TRUE

\* Option<String> of the tool accumulator's current_tool_name
NoName == [some |-> FALSE, name |-> <<>>]

SomeName(n) == [some |-> TRUE, name |-> n]

\* HarmonyMessageHandler::new followed by init(tools, None)
NewHandler ==
  [state |-> "Answering", parser |-> add_implicit_start(NewParser), acc |-> <<>>,
   name |-> NoName]

\* What can go wrong when the name of the first tool-call header is kept.
route_event_first_name(st, ev) ==
  CASE ev.type = "HeaderComplete" ->
         IF ev.header.channel \in {Analysis, Commentary} /\ ev.header.recipient # <<>>
           THEN [st EXCEPT !.state = "ToolCalling",
                           !.name = IF st.name.some THEN st.name
                                    ELSE SomeName(ev.header.recipient)]
         ELSE IF ev.header.channel = Analysis THEN [st EXCEPT !.state = "Thinking"]
         ELSE IF ev.header.channel \in {Commentary, Final}
           THEN [st EXCEPT !.state = "Answering"]
         ELSE st
    [] ev.type = "ContentEmitted" ->
         CASE st.state = "Answering" -> [st EXCEPT !.content = @ \o ev.content]
           [] st.state = "Thinking" -> [st EXCEPT !.thinking = @ \o ev.content]
           [] OTHER -> [st EXCEPT !.tool_payload = @ \o ev.content]
    [] ev.type = "MessageEnd" -> [st EXCEPT !.state = "Answering"]
    [] OTHER -> st

\* one event of the loop of HarmonyMessageHandler::add
route_event(st, ev) ==
  CASE ev.type = "HeaderComplete" ->
         IF ev.header.channel \in {Analysis, Commentary} /\ ev.header.recipient # <<>>
           THEN [st EXCEPT !.state = "ToolCalling", !.name = SomeName(ev.header.recipient)]
         ELSE IF ev.header.channel = Analysis THEN [st EXCEPT !.state = "Thinking"]
         ELSE IF ev.header.channel \in {Commentary, Final}
           THEN [st EXCEPT !.state = "Answering"]
         ELSE st
    [] ev.type = "ContentEmitted" ->
         CASE st.state = "Answering" -> [st EXCEPT !.content = @ \o ev.content]
           [] st.state = "Thinking" -> [st EXCEPT !.thinking = @ \o ev.content]
           [] OTHER -> [st EXCEPT !.tool_payload = @ \o ev.content]
    [] ev.type = "MessageEnd" -> [st EXCEPT !.state = "Answering"]
    [] OTHER -> st

RECURSIVE route(_, _)
\* for ev in events
route(st, evs) == IF evs = <<>> THEN st ELSE route(route_event(st, Head(evs)), Tail(evs))

\* name.strip_prefix("functions.")
strip_functions_prefix(name) ==
  IF StartsWith(name, FunctionsPrefix) THEN DropFirst(name, Len(FunctionsPrefix)) ELSE name

\* JSON documents serde_json::from_str accepts, as far as generation writes them
JsonDocuments == {<<"{", "}">>}

\* serde_json::from_str(raw) is Ok (surrounding whitespace is skipped)
JsonParses(raw) == Trim(raw) \in JsonDocuments

\* Value::to_string of the parsed document: compact, without the whitespace
JsonValue(raw) == Trim(raw)

\* serde_json's message for a one-line document without whitespace that is no
\* JSON: nothing, an object that ends early, text after an object, no value
JsonError(raw) ==
  (CASE raw = <<>> ->
          <<"E","O","F"," ","w","h","i","l","e"," ","p","a","r","s","i","n","g"," ","a"," ","v",
            "a","l","u","e">>
     [] raw = <<"{">> ->
          <<"E","O","F"," ","w","h","i","l","e"," ","p","a","r","s","i","n","g"," ","a","n"," ",
            "o","b","j","e","c","t">>
     [] StartsWith(raw, <<"{", "}">>) ->
          <<"t","r","a","i","l","i","n","g"," ","c","h","a","r","a","c","t","e","r","s">>
     [] raw[1] = "{" ->
          <<"k","e","y"," ","m","u","s","t"," ","b","e"," ","a"," ","s","t","r","i","n","g">>
     [] OTHER ->
          <<"e","x","p","e","c","t","e","d"," ","v","a","l","u","e">>)
  \o <<" ","a","t"," ","l","i","n","e"," ","1"," ","c","o","l","u","m","n"," ">>
  \o Digits(CASE raw = <<>> -> 0
              [] raw = <<"{">> -> 1
              [] StartsWith(raw, <<"{", "}">>) -> 3
              [] raw[1] = "{" -> 2
              [] OTHER -> 1)

\* format!("error parsing tool call: raw='{}', err={}", raw, e)
ParseErrorText(raw) ==
  <<"e","r","r","o","r"," ","p","a","r","s","i","n","g"," ","t","o","o","l"," ","c","a","l","l",
      ":"," ","r","a","w","=","'">> \o raw \o <<"'",","," ","e","r","r","=">> \o JsonError(raw)

\* What can go wrong when a failed parse of the arguments is swallowed.
handler_finish_swallow(h, p, st, done) ==
  LET acc  == h.acc \o st.tool_payload
      name == original_from_converted(ToolNameMap, strip_functions_prefix(st.name.name))
      none == [h |-> [state |-> st.state, parser |-> p, acc |-> <<>>, name |-> NoName],
               ok |-> TRUE, content |-> st.content, thinking |-> st.thinking,
               calls |-> <<>>, error |-> <<>>]
  IN IF ~done
       THEN [none EXCEPT !.h.acc = acc, !.h.name = st.name]
     ELSE IF ~st.name.some THEN none
     ELSE IF JsonParses(acc)
       THEN [none EXCEPT !.calls = <<[name |-> name, arguments |-> JsonValue(acc)]>>]
     ELSE none

\* the tail of HarmonyMessageHandler::add, after the events of s were routed: p is
\* the parser after add_content, st the routing state and what it collected
handler_finish(h, p, st, done) ==
  LET acc  == h.acc \o st.tool_payload
      name == original_from_converted(ToolNameMap, strip_functions_prefix(st.name.name))
      none == [h |-> [state |-> st.state, parser |-> p, acc |-> <<>>, name |-> NoName],
               ok |-> TRUE, content |-> st.content, thinking |-> st.thinking,
               calls |-> <<>>, error |-> <<>>]
  IN IF ~done
       THEN [none EXCEPT !.h.acc = acc, !.h.name = st.name]
     ELSE IF ~st.name.some THEN none
     ELSE IF JsonParses(acc)
       THEN [none EXCEPT !.calls = <<[name |-> name, arguments |-> JsonValue(acc)]>>]
     ELSE [none EXCEPT !.ok = FALSE, !.content = <<>>, !.thinking = <<>>,
                       !.error = ParseErrorText(acc)]

\* HarmonyMessageHandler::add(s, done): the handler after the call, Ok or Err, and
\* the returned (content, thinking, calls) or the error text
handler_add(h, s, done) ==
  One({One({handler_finish(h, r.p, st, done) :
              st \in {route([state |-> h.state, name |-> h.name, content |-> <<>>,
                             thinking |-> <<>>, tool_payload |-> <<>>], r.events)}}) :
         r \in {add_content(h.parser, s)}})

(***************************************************************************)
(* The turn engine's pure parts (cli/turn.rs).                             *)
(***************************************************************************)
\* the locals of one subturn
NewSubturn ==
  [parser |-> add_implicit_start(NewParser), handler |-> NewHandler,
   phase |-> "Answering", final_answer |-> <<>>, answer |-> <<>>, reasoning |-> <<>>]

\* What can go wrong when reasoning is taken for a part of the answer.
phase_event_reasoning_shown(st, ev) ==
  CASE ev.type = "HeaderComplete" ->
         IF ev.header.recipient # <<>> THEN [st EXCEPT !.phase = "ToolCalling"]
         ELSE IF ev.header.channel \in {Analysis, Commentary, Final}
           THEN [st EXCEPT !.phase = "Answering"]
         ELSE st
    [] ev.type = "ContentEmitted" ->
         IF st.phase = "Answering" THEN [st EXCEPT !.final_answer = @ \o ev.content] ELSE st
    [] ev.type = "MessageEnd" -> [st EXCEPT !.phase = "Answering"]
    [] OTHER -> st

\* one event of the display parser: the phase and the collected final answer
phase_event(st, ev) ==
  CASE ev.type = "HeaderComplete" ->
         IF ev.header.recipient # <<>> THEN [st EXCEPT !.phase = "ToolCalling"]
         ELSE IF ev.header.channel = Analysis THEN [st EXCEPT !.phase = "Thinking"]
         ELSE IF ev.header.channel \in {Commentary, Final}
           THEN [st EXCEPT !.phase = "Answering"]
         ELSE st
    [] ev.type = "ContentEmitted" ->
         IF st.phase = "Answering" THEN [st EXCEPT !.final_answer = @ \o ev.content] ELSE st
    [] ev.type = "MessageEnd" -> [st EXCEPT !.phase = "Answering"]
    [] OTHER -> st

RECURSIVE phases(_, _)
\* for ev in parser.add_content(&delta)
phases(st, evs) == IF evs = <<>> THEN st ELSE phases(phase_event(st, Head(evs)), Tail(evs))

\* Frame::Answer(delta) in the subturn loop: the display parser drives the phase
\* and the final answer, the handler collects answer and reasoning
on_answer(sub, delta) ==
  One({One({[parser |-> r.p, handler |-> h.h, phase |-> st.phase,
             final_answer |-> st.final_answer,
             answer |-> sub.answer \o h.content,
             reasoning |-> sub.reasoning \o h.thinking] :
              st \in {phases([phase |-> sub.phase, final_answer |-> sub.final_answer],
                             r.events)}}) :
         r \in {add_content(sub.parser, delta)},
         h \in {handler_add(sub.handler, delta, FALSE)}})

RECURSIVE JsonEscape(_)
\* serde_json's escaping inside a string
JsonEscape(s) ==
  IF s = <<>> THEN <<>>
  ELSE (CASE Head(s) = "\"" -> <<"\\", "\"">>
          [] Head(s) = "\\" -> <<"\\", "\\">>
          [] Head(s) = "\n" -> <<"\\", "n">>
          [] OTHER -> <<Head(s)>>) \o JsonEscape(Tail(s))

\* a JSON string
JsonString(s) == <<"\"">> \o JsonEscape(s) \o <<"\"">>

\* json!({"tool": "tool_call_parse_error", "result": {"error": e}}).to_string();
\* serde_json writes the keys of an object in sorted order
ParseErrorPayload(e) ==
  <<"{","\"","r","e","s","u","l","t","\"",":","{","\"","e","r","r","o","r","\"",
      ":">> \o JsonString(e) \o <<"}",",","\"","t","o","o","l","\"",":","\"","t","o","o","l",
          "_","c","a","l","l","_","p","a","r","s","e","_","e","r","r","o","r","\"","}">>

\* json!({"tool": name, "arguments": args, "result": {"error": "user denied"}}).to_string()
DeniedPayload(name, args) ==
  <<"{","\"","a","r","g","u","m","e","n","t","s","\"",":">> \o args \o <<",","\"","r","e","s",
      "u","l","t","\"",":","{","\"","e","r","r","o","r","\"",":","\"","u","s","e","r"," ","d",
          "e","n","i","e","d","\"","}",",","\"","t","o","o","l","\"",":">>
  \o JsonString(name) \o <<"}">>

\* json!({"tool": name, "arguments": args, "result": result}).to_string()
ResultPayload(name, args, result) ==
  <<"{","\"","a","r","g","u","m","e","n","t","s","\"",":">> \o args \o <<",","\"","r","e","s",
      "u","l","t","\"",":">> \o result \o <<",","\"","t","o","o","l","\"",":">>
  \o JsonString(name) \o <<"}">>

\* gate_risky_if_needed asks the user
Risky(name) == name \in {RunCommand, ApplyPatch}

\* Display::confirm_run_command_execution and confirm_apply_patch_edits: without a
\* terminal to prompt on, the call is rejected unasked; otherwise the user is
\* asked and yes_or_no decides (answer: the line typed begins with y or Y)
confirm(can_prompt_user, answer) ==
  IF ~can_prompt_user THEN [prompted |-> FALSE, approved |-> FALSE]
  ELSE [prompted |-> TRUE, approved |-> answer]

\* What can go wrong when the gate knows only one of the two tools.
gate_risky_if_needed_one(can_prompt_user, name, answer) ==
  IF name = RunCommand THEN confirm(can_prompt_user, answer)
  ELSE [prompted |-> FALSE, approved |-> TRUE]

\* gate_risky_if_needed(display, name, args)
gate_risky_if_needed(can_prompt_user, name, answer) ==
  IF name = RunCommand THEN confirm(can_prompt_user, answer)
  ELSE IF name = ApplyPatch THEN confirm(can_prompt_user, answer)
  ELSE [prompted |-> FALSE, approved |-> TRUE]

\* what a tool may answer
ToolResults == {<<"{","\"","o","k","\"",":","t","r","u","e","}">>, <<"{","\"","o","k","\"",":",
      "f","a","l","s","e","}">>}

\* invoke(...).unwrap_or_else(|e| json!({"error": e}))
InvokeResults(name) ==
  IF name \in ExposedTools THEN ToolResults ELSE {<<"{","\"","e","r","r","o","r","\"",":","\"",
      "N","o"," ","s","u","c","h"," ","f","u","n","c","t","i","o","n","\"","}">>}

\* the Tool message of one executed or denied call
ToolMessage(call, approved, result) ==
  IF approved THEN Msg("Tool", ResultPayload(call.name, call.arguments, result))
  ELSE Msg("Tool", DeniedPayload(call.name, call.arguments))

\* What can go wrong when the parse error is surfaced as a Developer message.
Flushed_as_developer(messages, sub, flush) ==
  LET m1 == IF flush.ok THEN messages
            ELSE Append(messages, Msg("Developer", ParseErrorPayload(flush.error)))
      m2 == IF sub.reasoning # <<>> THEN Append(m1, Msg("Reasoning", sub.reasoning)) ELSE m1
  IN IF sub.answer # <<>> THEN Append(m2, Msg("Assistant", sub.answer)) ELSE m2

\* the messages pushed before the calls are looked at (lines 131-152)
Flushed(messages, sub, flush) ==
  LET m1 == IF flush.ok THEN messages
            ELSE Append(messages, Msg("Tool", ParseErrorPayload(flush.error)))
      m2 == IF sub.reasoning # <<>> THEN Append(m1, Msg("Reasoning", sub.reasoning)) ELSE m1
  IN IF sub.answer # <<>> THEN Append(m2, Msg("Assistant", sub.answer)) ELSE m2

\* What can go wrong when the test of the parse error is inverted.
AfterFlush_inverted(calls, had_tool_parse_error) ==
  IF calls = <<>> THEN (IF had_tool_parse_error THEN "return" ELSE "continue") ELSE "tools"

\* lines 153-160: return the answer, continue with the next subturn, or run the tools
AfterFlush(calls, had_tool_parse_error) ==
  IF calls = <<>> THEN (IF had_tool_parse_error THEN "continue" ELSE "return") ELSE "tools"

\* eyre::Report values: a ProtocolError, a bare std::io::Error, anything else
ProtocolErr(variant, kind) == [type |-> "ProtocolError", variant |-> variant, kind |-> kind]

IoErr(kind) == [type |-> "io::Error", variant |-> "", kind |-> kind]

ConnectErr == [type |-> "connect", variant |-> "", kind |-> ""]

NoErr == [type |-> "none", variant |-> "", kind |-> ""]

\* the std::io::ErrorKind values is_disconnect names
DisconnectIoKinds == {"BrokenPipe", "ConnectionReset", "ConnectionAborted", "UnexpectedEof"}

\* run_turn::is_disconnect
is_disconnect(e) ==
  IF e.type = "ProtocolError" THEN e.variant = "Disconnect"
  ELSE IF e.type = "io::Error" THEN e.kind \in DisconnectIoKinds
  ELSE FALSE

max_attempts == 6

BackoffCap == 6

\* 1u64 << attempt.min(6), in milliseconds
Backoff(attempt) == 2 ^ SetMin({attempt, BackoffCap})

\* What can go wrong when the attempts are not bounded.
GivesUp_never(attempt) == FALSE

\* attempt >= max_attempts
GivesUp(attempt) == attempt >= max_attempts

\* What can go wrong when a retry starts again from the history the turn began with.
RetryHistory_restart(current, initial) == initial

\* the history a retry sends: run_turn's own list, as the failed attempt left it
RetryHistory(current, initial) == current

\* "\u{FFFD}"
ReplacementChar == <<"U+FFFD">>

\* What can go wrong when the turn is not closed with a Stop.
ClosingFrames_noStop(pending) == IF pending THEN <<Answer(ReplacementChar)>> ELSE <<>>

\* the frames serve_one_turn writes after the last piece
ClosingFrames(pending) ==
  (IF pending THEN <<Answer(ReplacementChar)>> ELSE <<>>) \o <<Stop>>

(***************************************************************************)
(* The renderer (harmony/templating.rs).                                   *)
(***************************************************************************)
AssistantRole == <<"a","s","s","i","s","t","a","n","t">>

\* push_segment(buf, head, body)
push_segment(head, body) == StartTag \o head \o HeaderEndTag \o body \o EndTag

\* push_assistant(buf, channel, body)
push_assistant(channel, body) ==
  StartTag \o AssistantRole \o ChannelTag \o channel \o HeaderEndTag \o body \o EndTag

\* push_tool_call(buf, name, args_json)
push_tool_call(name, args_json) ==
  StartTag \o AssistantRole \o ChannelTag \o Commentary \o <<" ">> \o ToPrefix
  \o FunctionsPrefix \o name \o <<" ">> \o ConstrainTag \o <<"j","s","o","n">> \o HeaderEndTag
  \o args_json \o CallTag

\* push_tool_result(buf, name, payload)
push_tool_result(name, payload) ==
  StartTag \o FunctionsPrefix \o name \o <<" ">> \o ToPrefix \o AssistantRole \o ChannelTag
  \o Commentary \o HeaderEndTag \o payload \o EndTag

\* an absent key of a JSON object
Absent == [some |-> FALSE, is_str |-> FALSE, json |-> <<>>, str |-> <<>>]

\* a key holding a value that is not a string: its compact JSON text
Json(text) == [some |-> TRUE, is_str |-> FALSE, json |-> text, str |-> <<>>]

\* a key holding a string
Str(s) == [some |-> TRUE, is_str |-> TRUE, json |-> JsonString(s), str |-> s]

\* {"error":"user denied"}
UserDenied ==
  <<"{","\"","e","r","r","o","r","\"",":","\"","u","s","e","r"," ","d","e","n","i","e","d",
    "\"","}">>

\* the Tool payloads serde_json::from_str::<Value> accepts, with what val.get
\* finds in them: those the turn engine writes, one with a string result and
\* one with neither arguments nor result, one with arguments only and one
\* that is no object
ToolValues ==
  {[text |-> ResultPayload(ReadFile, <<"{", "}">>, r), tool |-> ReadFile,
    arguments |-> Json(<<"{", "}">>), result |-> Json(r)] : r \in ToolResults}
  \cup
  {[text |-> DeniedPayload(RunCommand, <<"{", "}">>), tool |-> RunCommand,
    arguments |-> Json(<<"{", "}">>), result |-> Json(UserDenied)],
   [text |-> ParseErrorPayload(<<"e">>),
    tool |-> <<"t","o","o","l","_","c","a","l","l","_","p","a","r","s","e","_","e","r","r",
               "o","r">>,
    arguments |-> Absent,
    result |-> Json(<<"{","\"","e","r","r","o","r","\"",":","\"","e","\"","}">>)],
   [text |-> <<"{","\"","r","e","s","u","l","t","\"",":","\"","r","\"",",","\"","t","o",
               "o","l","\"",":">> \o JsonString(ReadFile) \o <<"}">>,
    tool |-> ReadFile, arguments |-> Absent, result |-> Str(<<"r">>)],
   [text |-> <<"{","\"","t","o","o","l","\"",":">> \o JsonString(ListFiles) \o <<"}">>,
    tool |-> ListFiles, arguments |-> Absent, result |-> Absent],
   [text |-> <<"{","\"","a","r","g","u","m","e","n","t","s","\"",":","n","u","l","l",",",
               "\"","t","o","o","l","\"",":">> \o JsonString(ListFiles) \o <<"}">>,
    tool |-> ListFiles, arguments |-> Json(<<"n","u","l","l">>), result |-> Absent],
   [text |-> <<"5">>, tool |-> <<>>, arguments |-> Absent, result |-> Absent]}

\* a Tool payload that is no JSON
MalformedTool == <<"o","o","p","s">>

\* What can go wrong when a message with arguments is taken for a call only.
render_message_call_only(msg) ==
  CASE msg.role = "System" -> push_segment(<<"s","y","s","t","e","m">>, msg.text)
    [] msg.role = "Developer" ->
         push_segment(<<"d","e","v","e","l","o","p","e","r">>, msg.text)
    [] msg.role = "User" -> push_segment(<<"u","s","e","r">>, msg.text)
    [] msg.role = "Assistant" -> push_assistant(Final, msg.text)
    [] msg.role = "Reasoning" -> push_assistant(Analysis, msg.text)
    [] OTHER ->
         IF \E v \in ToolValues : v.text = msg.text
           THEN LET val == CHOOSE v \in ToolValues : v.text = msg.text
                IN IF val.arguments.some
                     THEN push_tool_call(val.tool, val.arguments.json)
                   ELSE IF val.result.some
                     THEN push_tool_result(val.tool,
                            IF val.result.is_str THEN val.result.str ELSE val.result.json)
                   ELSE push_tool_result(val.tool, msg.text)
           ELSE push_assistant(Commentary, msg.text)

\* the arm of one message in the loop of render_prompt_from_history
render_message(msg) ==
  CASE msg.role = "System" -> push_segment(<<"s","y","s","t","e","m">>, msg.text)
    [] msg.role = "Developer" ->
         push_segment(<<"d","e","v","e","l","o","p","e","r">>, msg.text)
    [] msg.role = "User" -> push_segment(<<"u","s","e","r">>, msg.text)
    [] msg.role = "Assistant" -> push_assistant(Final, msg.text)
    [] msg.role = "Reasoning" -> push_assistant(Analysis, msg.text)
    [] OTHER ->
         IF \E v \in ToolValues : v.text = msg.text
           THEN LET val == CHOOSE v \in ToolValues : v.text = msg.text
                IN (IF val.arguments.some
                      THEN push_tool_call(val.tool, val.arguments.json) ELSE <<>>)
                   \o (IF val.result.some
                         THEN push_tool_result(val.tool,
                                IF val.result.is_str THEN val.result.str
                                ELSE val.result.json)
                         ELSE <<>>)
                   \o (IF ~val.arguments.some /\ ~val.result.some
                         THEN push_tool_result(val.tool, msg.text) ELSE <<>>)
           ELSE push_assistant(Commentary, msg.text)

RECURSIVE render_messages(_)
\* for m in messages
render_messages(messages) ==
  IF messages = <<>> THEN <<>>
  ELSE render_message(Head(messages)) \o render_messages(Tail(messages))

\* render_prompt_from_history(messages, append_assistant_start)
render_prompt_from_history(messages, append_assistant_start) ==
  render_messages(messages)
  \o (IF append_assistant_start THEN StartTag \o AssistantRole ELSE <<>>)

(***************************************************************************)
(* The token window of generation (inference.rs).                          *)
(***************************************************************************)
\* usize::saturating_sub
saturating_sub(a, b) == IF a > b THEN a - b ELSE 0

\* the floor of the slack, in tokens
SlackFloor == 128

\* the slack is at least one part in SlackDivisor of the context
SlackDivisor == 32

\* What can go wrong when the clipped prompt is the head of the prompt.
tokenize_clip_to_ctx_head(toks, preamble_len, ctx_cap) ==
  SubSeq(toks, 1, SetMin({Len(toks), saturating_sub(ctx_cap, 1)}))

\* What can go wrong when a prompt is not clipped.
tokenize_clip_to_ctx_whole(toks, preamble_len, ctx_cap) == toks

\* tokenize_clip_to_ctx, from the tokens of the prompt on
tokenize_clip_to_ctx(toks, preamble_len, ctx_cap) ==
  LET keep == SetMin({Len(toks), preamble_len})
      tail_room == saturating_sub(ctx_cap, 1 + keep)
      start == saturating_sub(Len(toks), tail_room)
  IN IF Len(toks) > saturating_sub(ctx_cap, 1)
       THEN SubSeq(toks, 1, keep) \o SubSeq(toks, start + 1, Len(toks))
       ELSE toks

\* What can go wrong when the window keeps the most recent tokens only.
rebuild_kv_with_sliding_window_tail(rolling_tokens, preamble_len, ctx_cap) ==
  LET keep == SetMin({Len(rolling_tokens), preamble_len})
      available_tail_room == saturating_sub(ctx_cap, 1 + keep)
      slack == SetMin({SetMax({(ctx_cap + SlackDivisor - 1) \div SlackDivisor, SlackFloor}),
                       available_tail_room})
      tail_room == saturating_sub(available_tail_room, slack)
      tail_start == saturating_sub(Len(rolling_tokens), tail_room + keep)
  IN SubSeq(rolling_tokens, tail_start + 1, Len(rolling_tokens))

\* rebuild_kv_with_sliding_window: the compact tokens; new_pos is their number
rebuild_kv_with_sliding_window(rolling_tokens, preamble_len, ctx_cap) ==
  LET keep == SetMin({Len(rolling_tokens), preamble_len})
      available_tail_room == saturating_sub(ctx_cap, 1 + keep)
      slack == SetMin({SetMax({(ctx_cap + SlackDivisor - 1) \div SlackDivisor, SlackFloor}),
                       available_tail_room})
      tail_room == saturating_sub(available_tail_room, slack)
      tail_start == saturating_sub(Len(rolling_tokens), tail_room)
  IN SubSeq(rolling_tokens, 1, keep)
     \o SubSeq(rolling_tokens, tail_start + 1, Len(rolling_tokens))

(***************************************************************************)
(* The detokenizer of infer_into_stream (inference.rs:172-207), on bytes.  *)
(***************************************************************************)
RECURSIVE valid_up_to(_)
\* Utf8Error::valid_up_to: the length of the longest prefix from_utf8 accepts
valid_up_to(b) ==
  IF b = <<>> THEN 0
  ELSE LET n == IF b[1] < 128 THEN 1
                ELSE IF b[1] \in 194..223 THEN 2
                ELSE IF b[1] \in 224..239 THEN 3
                ELSE IF b[1] \in 240..244 THEN 4
                ELSE 0
       IN IF n > 0 /\ Len(b) >= n /\ \A i \in 2..n : b[i] \in 128..191
            THEN n + valid_up_to(DropFirst(b, n))
            ELSE 0

RECURSIVE emit_valid_clearing(_, _)
\* What can go wrong when the incomplete tail is cleared with the emitted prefix.
emit_valid_clearing(pending, pieces) ==
  IF Utf8Valid(pending)
    THEN IF pending = <<>> THEN [pending |-> pending, pieces |-> pieces]
         ELSE [pending |-> <<>>, pieces |-> Append(pieces, pending)]
  ELSE LET n == valid_up_to(pending)
       IN IF n = 0 THEN [pending |-> pending, pieces |-> pieces]
          ELSE emit_valid_clearing(<<>>, Append(pieces, SubSeq(pending, 1, n)))

RECURSIVE emit_valid(_, _)
\* the inner loop: emit the maximal valid prefix, retain the incomplete tail
emit_valid(pending, pieces) ==
  IF Utf8Valid(pending)
    THEN IF pending = <<>> THEN [pending |-> pending, pieces |-> pieces]
         ELSE [pending |-> <<>>, pieces |-> Append(pieces, pending)]
  ELSE LET n == valid_up_to(pending)
       IN IF n = 0 THEN [pending |-> pending, pieces |-> pieces]
          ELSE emit_valid(DropFirst(pending, n), Append(pieces, SubSeq(pending, 1, n)))

(***************************************************************************)
(* The workspace sandbox (tools/common.rs) over a small file system.       *)
(* A path is the sequence of its components below `/`; "." and ".." are    *)
(* components like any other.                                              *)
(***************************************************************************)
\* the file system: directories, files, and symbolic links with their targets
Dirs == {<<>>, <<"w">>, <<"w", "a">>, <<"etc">>}

Files == {<<"w", "a", "f">>, <<"etc", "p">>}

LinkTargets ==
  [p \in {<<"w", "out">>, <<"w", "in">>, <<"w", "dang">>, <<"w", "a", "up">>} |->
     CASE p = <<"w", "out">> -> <<"etc">>
       [] p = <<"w", "in">> -> <<"w", "a">>
       [] p = <<"w", "dang">> -> <<"etc", "none">>
       [] p = <<"w", "a", "up">> -> <<"w">>]

\* symbolic links followed in one resolution before ELOOP
MaxLinks == 4

\* Path::parent / PathBuf::pop
Front(p) == SubSeq(p, 1, Len(p) - 1)

PathOk(p) == [ok |-> TRUE, path |-> p, kind |-> "none"]

PathErr(kind) == [ok |-> FALSE, path |-> <<>>, kind |-> kind]

RECURSIVE Walk(_, _, _)
\* path resolution by the system, from the resolved directory cur through the
\* components rest, following at most fuel symbolic links
Walk(cur, rest, fuel) ==
  IF rest = <<>> THEN PathOk(cur)
  ELSE IF cur \in Files THEN PathErr("NotADirectory")
  ELSE IF Head(rest) = "." THEN Walk(cur, Tail(rest), fuel)
  ELSE IF Head(rest) = ".." THEN Walk(Front(cur), Tail(rest), fuel)
  ELSE LET n == Append(cur, Head(rest))
       IN IF n \in DOMAIN LinkTargets
            THEN IF fuel = 0 THEN PathErr("FilesystemLoop")
                 ELSE Walk(<<>>, LinkTargets[n] \o Tail(rest), fuel - 1)
          ELSE IF n \in Dirs \cup Files THEN Walk(n, Tail(rest), fuel)
          ELSE PathErr("NotFound")

\* fs::canonicalize
canonicalize(p) == Walk(<<>>, p, MaxLinks)

\* fs::symlink_metadata(p).is_ok(): the last component is not followed
symlink_metadata_ok(p) ==
  IF p = <<>> \/ p[Len(p)] \in {".", ".."} THEN canonicalize(p).ok
  ELSE LET d == canonicalize(Front(p))
       IN /\ d.ok
          /\ d.path \in Dirs
          /\ Append(d.path, p[Len(p)]) \in Dirs \cup Files \cup DOMAIN LinkTargets

RECURSIVE peel(_, _)
\* soft_canonicalize, lines 173-186: the non-existent tail is peeled off; a
\* path ending in ".." has no file_name
peel(probe, tail) ==
  IF symlink_metadata_ok(probe) \/ probe = <<>> THEN [probe |-> probe, tail |-> tail]
  ELSE peel(Front(probe),
            IF probe[Len(probe)] = ".." THEN tail ELSE <<probe[Len(probe)]>> \o tail)

\* soft_canonicalize of an absolute path without "." components
soft_canonicalize(p) ==
  LET peeled == peel(p, <<>>)
      base   == canonicalize(peeled.probe)
  IN IF base.ok THEN PathOk(base.path \o peeled.tail) ELSE base

\* Path::components drops the "." components of an absolute path
WithoutCurDir(p) == SelectSeq(p, LAMBDA c : c # ".")

RECURSIVE collapse_clamped(_, _)
\* What can go wrong when ".." at the root is ignored.
collapse_clamped(components, rel) ==
  IF components = <<>> THEN PathOk(rel)
  ELSE IF Head(components) = "." THEN collapse_clamped(Tail(components), rel)
  ELSE IF Head(components) = ".."
    THEN collapse_clamped(Tail(components), IF rel = <<>> THEN rel ELSE Front(rel))
  ELSE collapse_clamped(Tail(components), Append(rel, Head(components)))

RECURSIVE collapse(_, _)
\* lines 123-144: the components of a relative input are collapsed
collapse(components, rel) ==
  IF components = <<>> THEN PathOk(rel)
  ELSE IF Head(components) = "." THEN collapse(Tail(components), rel)
  ELSE IF Head(components) = ".."
    THEN IF rel = <<>> THEN PathErr("PermissionDenied")
         ELSE collapse(Tail(components), Front(rel))
  ELSE collapse(Tail(components), Append(rel, Head(components)))

\* lines 107-119, 156-165: the suffix under the root, "." for the root itself
relative_to(root, real) ==
  IF Len(real) = Len(root) THEN PathOk(<<".">>)
  ELSE PathOk(SubSeq(real, Len(root) + 1, Len(real)))

\* What can go wrong when the collapsed path is returned as it is.
resolve_path_within_cwd_lexical(root, is_absolute, components) ==
  IF is_absolute
    THEN LET abs == soft_canonicalize(WithoutCurDir(components))
         IN IF ~abs.ok THEN abs
            ELSE IF ~StartsWith(abs.path, root) THEN PathErr("PermissionDenied")
            ELSE relative_to(root, abs.path)
  ELSE LET rel == collapse(components, <<>>)
       IN IF ~rel.ok THEN rel
          ELSE IF rel.path = <<>> THEN PathOk(<<".">>) ELSE rel

\* resolve_path_within_cwd with root the canonicalized working directory
resolve_path_within_cwd(root, is_absolute, components) ==
  IF ~is_absolute /\ WithoutCurDir(components) = <<>> THEN PathOk(<<".">>)
  ELSE IF is_absolute
    THEN LET abs == soft_canonicalize(WithoutCurDir(components))
         IN IF ~abs.ok THEN abs
            ELSE IF ~StartsWith(abs.path, root) THEN PathErr("PermissionDenied")
            ELSE relative_to(root, abs.path)
  ELSE LET rel == collapse(components, <<>>)
       IN IF ~rel.ok THEN rel
          ELSE LET real == soft_canonicalize(root \o rel.path)
               IN IF ~real.ok THEN real
                  ELSE IF ~StartsWith(real.path, root) THEN PathErr("PermissionDenied")
                  ELSE relative_to(root, real.path)

(***************************************************************************)
(* The patch tool (tools/apply_patch): hunk application and the execution  *)
(* of patch ops.  A text is a sequence of characters; Wide is a character  *)
(* of two bytes in UTF-8, every other character has one byte.              *)
(***************************************************************************)
Newline == "\n"

Wide == "U+00E9"

\* str::len: the length in bytes
byte_len(s) == Len(s) + Cardinality({i \in 1..Len(s) : s[i] = Wide})

\* str::is_char_boundary
is_char_boundary(s, n) == \E k \in 0..Len(s) : byte_len(SubSeq(s, 1, k)) = n

\* str::split on the newline, collected: one more piece than there are newlines
RECURSIVE split_lines(_)
split_lines(s) ==
  LET nl == {i \in 1..Len(s) : s[i] = Newline}
  IN IF nl = {} THEN <<s>>
     ELSE <<SubSeq(s, 1, SetMin(nl) - 1)>> \o split_lines(DropFirst(s, SetMin(nl)))

RECURSIVE join(_, _)
\* [String]::join
join(pieces, sep) ==
  IF pieces = <<>> THEN <<>>
  ELSE IF Len(pieces) = 1 THEN pieces[1]
  ELSE pieces[1] \o sep \o join(Tail(pieces), sep)

\* join("\n")
join_lines(lines) == join(lines, <<Newline>>)

\* str::trim_end
trim_end(s) ==
  LET keep == {i \in 1..Len(s) : ~IsWhitespace(s[i])}
  IN IF keep = {} THEN <<>> ELSE SubSeq(s, 1, SetMax(keep))

\* str::trim_end_matches on the newline
trim_end_newlines(s) ==
  LET keep == {i \in 1..Len(s) : s[i] # Newline}
  IN IF keep = {} THEN <<>> ELSE SubSeq(s, 1, SetMax(keep))

\* What can go wrong when the newlines already there are kept.
set_trailing_newline_added(s, want_newline) ==
  IF want_newline THEN Append(s, Newline) ELSE s

set_trailing_newline(s, want_newline) ==
  IF want_newline THEN Append(trim_end_newlines(s), Newline) ELSE trim_end_newlines(s)

eq_line_relaxed(a, b) == trim_end(a) = trim_end(b)

\* the window as (start, end), 0-based and half open
find_lines_window(before, old) ==
  IF old = <<>> \/ Len(before) < Len(old) THEN [found |-> FALSE, s |-> 0, e |-> 0]
  ELSE LET starts == {start \in 0..(Len(before) - Len(old)) :
                        \A k \in 0..(Len(old) - 1) :
                          eq_line_relaxed(before[start + k + 1], old[k + 1])}
       IN IF starts = {} THEN [found |-> FALSE, s |-> 0, e |-> 0]
          ELSE [found |-> TRUE, s |-> SetMin(starts), e |-> SetMin(starts) + Len(old)]

\* bytes of a segment the error message shows
PreviewLimit == 160

\* replace('\n', "\\n")
escape_newlines(s) == join(split_lines(s), <<"\\", "n">>)

\* preview: the slice at byte PreviewLimit panics off a character boundary
preview(s) ==
  LET t == escape_newlines(s)
  IN IF byte_len(t) > PreviewLimit
       THEN IF is_char_boundary(t, PreviewLimit)
              THEN [panicked |-> FALSE,
                    text |-> Append(SubSeq(t, 1, SetMax({k \in 0..Len(t) :
                               byte_len(SubSeq(t, 1, k)) <= PreviewLimit})), "U+2026")]
              ELSE [panicked |-> TRUE, text |-> <<>>]
     ELSE [panicked |-> FALSE, text |-> t]

HunkOk(text) == [ok |-> TRUE, panicked |-> FALSE, text |-> text, error |-> "", shown |-> <<>>]

HunkErr(error, shown) ==
  [ok |-> FALSE, panicked |-> FALSE, text |-> <<>>, error |-> error, shown |-> shown]

HunkPanic == [ok |-> FALSE, panicked |-> TRUE, text |-> <<>>, error |-> "", shown |-> <<>>]

apply_hunk(before, h) ==
  IF h.old_lines = <<>>
    THEN HunkOk((IF before # <<>> /\ before[Len(before)] # Newline
                   THEN Append(before, Newline) ELSE before)
                \o join_lines(h.new_lines))
  ELSE
    LET old_seg      == join_lines(h.old_lines)
        new_seg      == join_lines(h.new_lines)
        before_lines == split_lines(before)
        old_lines    == split_lines(old_seg)
        ends_with_nl == before # <<>> /\ before[Len(before)] = Newline
        window       == find_lines_window(before_lines, old_lines)
        pos          == Find(before, old_seg)
    IN IF window.found
         THEN LET out == join_lines(SubSeq(before_lines, 1, window.s) \o h.new_lines
                                    \o DropFirst(before_lines, window.e))
              IN HunkOk(IF ends_with_nl /\ ~(out # <<>> /\ out[Len(out)] = Newline)
                          THEN Append(out, Newline) ELSE out)
       ELSE IF pos # 0
         THEN HunkOk(SubSeq(before, 1, pos - 1) \o new_seg
                     \o DropFirst(before, pos - 1 + Len(old_seg)))
       ELSE LET shown == preview(old_seg)
            IN IF shown.panicked THEN HunkPanic
               ELSE HunkErr("hunk old text not found", shown.text)

RECURSIVE apply_all_hunks_from(_, _, _, _)
\* the loop of apply_all_hunks from hunk idx (0-based) on
apply_all_hunks_from(text, hunks, idx, errors) ==
  IF idx = Len(hunks)
    THEN [ok |-> errors = <<>>, panicked |-> FALSE, text |-> text, errors |-> errors]
  ELSE One({IF r.panicked
              THEN [ok |-> FALSE, panicked |-> TRUE, text |-> text, errors |-> errors]
            ELSE IF r.ok THEN apply_all_hunks_from(r.text, hunks, idx + 1, errors)
            ELSE apply_all_hunks_from(text, hunks, idx + 1,
                                      Append(errors, [hunk |-> idx, error |-> r.error])) :
            r \in {apply_hunk(text, hunks[idx + 1])}})

apply_all_hunks(before, hunks) == apply_all_hunks_from(before, hunks, 0, <<>>)

(***************************************************************************)
(* Patch ops on the files of the workspace `/w` (apply_patch/filesystem.rs *)
(* and apply_patch.rs).  The files are kept by their resolved relative     *)
(* path; the directories and links are those of the sandbox above.         *)
(***************************************************************************)
\* the content of a file that is not there
Missing == <<"missing">>

\* the working directory of the tool
Workspace == <<"w">>

IoOk == [ok |-> TRUE, kind |-> "none"]

IoFail(kind) == [ok |-> FALSE, kind |-> kind]

\* the resolved path is a directory of the workspace
IsDirectory(rel) == rel = <<".">> \/ Workspace \o rel \in Dirs

\* resolve_path_within_cwd(path).and_then(fs::read_to_string)
read_to_string(files, path) ==
  One({IF ~rel.ok THEN [ok |-> FALSE, kind |-> rel.kind, text |-> <<>>]
       ELSE IF IsDirectory(rel.path)
         THEN [ok |-> FALSE, kind |-> "IsADirectory", text |-> <<>>]
       ELSE IF rel.path \notin DOMAIN files \/ files[rel.path] = Missing
         THEN [ok |-> FALSE, kind |-> "NotFound", text |-> <<>>]
       ELSE [ok |-> TRUE, kind |-> "none", text |-> files[rel.path]] :
       rel \in {resolve_path_within_cwd(Workspace, FALSE, path)}})

\* fs::write after create_dir_all(parent): the files after it and its outcome
fs_write(files, path, content) ==
  One({IF ~rel.ok THEN [files |-> files, io |-> IoFail(rel.kind), wrote |-> <<>>]
       ELSE IF IsDirectory(rel.path) \/ rel.path \notin DOMAIN files
         THEN [files |-> files, io |-> IoFail("IsADirectory"), wrote |-> <<>>]
       ELSE [files |-> [files EXCEPT ![rel.path] = content], io |-> IoOk,
             wrote |-> <<[path |-> rel.path, content |-> content]>>] :
       rel \in {resolve_path_within_cwd(Workspace, FALSE, path)}})

write_text_creating_dirs(files, path, content, want_trailing_newline) ==
  fs_write(files, path, set_trailing_newline(content, want_trailing_newline))

write_verbatim_within_cwd(files, path, content) == fs_write(files, path, content)

remove_file_if_exists(files, path) ==
  One({IF ~rel.ok THEN [files |-> files, io |-> IoFail(rel.kind)]
       ELSE IF IsDirectory(rel.path) \/ rel.path \notin DOMAIN files
         THEN [files |-> files, io |-> IoFail("IsADirectory")]
       ELSE [files |-> [files EXCEPT ![rel.path] = Missing], io |-> IoOk] :
       rel \in {resolve_path_within_cwd(Workspace, FALSE, path)}})

\* one result of execute_patch_ops
OpResult(path, op, ok, stage, kind, errors) ==
  [path |-> path, op |-> op, ok |-> ok, error |-> [stage |-> stage, kind |-> kind],
   errors |-> errors]

\* What can go wrong when the text is written whatever the hunks did.
update_with_partial(files, op, text0) ==
  One({IF applied.panicked
         THEN [files |-> files, wrote |-> <<>>, panicked |-> TRUE,
               result |-> OpResult(op.path, "update", FALSE, "", "none", <<>>)]
       ELSE One({[files |-> res.files, wrote |-> res.wrote, panicked |-> FALSE,
                  result |-> OpResult(op.path, "update", applied.ok /\ res.io.ok,
                                      IF res.io.ok THEN "" ELSE "write",
                                      res.io.kind, applied.errors)] :
                 res \in {write_text_creating_dirs(files, op.path, applied.text,
                                                   ~op.no_newline)}}) :
       applied \in {apply_all_hunks(text0, op.hunks)}})

\* lines 84-99: the hunks are applied and the text written if all of them were
update_with(files, op, text0) ==
  One({IF applied.panicked
         THEN [files |-> files, wrote |-> <<>>, panicked |-> TRUE,
               result |-> OpResult(op.path, "update", FALSE, "", "none", <<>>)]
       ELSE IF applied.ok
         THEN One({[files |-> res.files, wrote |-> res.wrote, panicked |-> FALSE,
                    result |-> OpResult(op.path, "update", res.io.ok,
                                        IF res.io.ok THEN "" ELSE "write",
                                        res.io.kind, <<>>)] :
                   res \in {write_text_creating_dirs(files, op.path, applied.text,
                                                     ~op.no_newline)}})
       ELSE [files |-> files, wrote |-> <<>>, panicked |-> FALSE,
             result |-> OpResult(op.path, "update", FALSE, "", "none", applied.errors)] :
       applied \in {apply_all_hunks(text0, op.hunks)}})

\* lines 46-101: one turn of the loop over the ops
execute_patch_op(files, op) ==
  IF op.op = "add"
    THEN One({[files |-> res.files, wrote |-> res.wrote, panicked |-> FALSE,
               result |-> OpResult(op.path, "add", res.io.ok, "", res.io.kind, <<>>)] :
              res \in {write_text_creating_dirs(files, op.path, op.content,
                                                ~op.no_newline)}})
  ELSE IF op.op = "delete"
    THEN One({[files |-> res.files, wrote |-> <<>>, panicked |-> FALSE,
               result |-> OpResult(op.path, "delete", res.io.ok, "", res.io.kind, <<>>)] :
              res \in {remove_file_if_exists(files, op.path)}})
  ELSE One({IF ~read.ok /\ read.kind # "NotFound"
              THEN [files |-> files, wrote |-> <<>>, panicked |-> FALSE,
                    result |-> OpResult(op.path, "update", FALSE, "read", read.kind, <<>>)]
            ELSE update_with(files, op, read.text) :
            read \in {read_to_string(files, op.path)}})

(***************************************************************************)
(* The history of a session (history.rs, cli/run.rs, cli/repl.rs).         *)
(***************************************************************************)
NoText == [some |-> FALSE, text |-> <<>>]

SomeText(s) == [some |-> TRUE, text |-> s]

\* prompting.rs: the preamble and TOOL_GUIDANCE.trim()
SystemPreamble == <<"s">>

ToolGuidance == <<"g">>

\* make_history(stdin_content, stdout_redirection_path)
make_history(stdin_content, stdout_redirection_path) ==
  LET h1 == <<Msg("System", SystemPreamble)>>
      h2 == IF ToolGuidance # <<>> THEN Append(h1, Msg("Developer", ToolGuidance)) ELSE h1
      h3 == IF stdin_content.some /\ Trim(stdin_content.text) # <<>>
              THEN h2 \o <<Msg("Developer", <<"n","e","x","t">>),
                           Msg("Developer", Trim(stdin_content.text))>>
              ELSE h2
  IN IF stdout_redirection_path.some
       THEN Append(h3, Msg("Developer", <<"t","o"," ">> \o stdout_redirection_path.text))
       ELSE h3

\* What can go wrong when the turn works on the caller's history itself.
after_turn_in_place(history, messages, answer) ==
  Append(messages, Msg("Assistant", answer))

\* repl.rs:32-35: run_turn was given a clone; the caller's history gets the answer
after_turn(history, messages, answer) == Append(history, Msg("Assistant", answer))

(***************************************************************************)
(* Starting the Hub and reaching it (hub.rs, cli/connect.rs).              *)
(***************************************************************************)
\* cleanup_stale_socket(path), on what is found at the path: "none", "socket"
\* or "other"; gives whether startup goes on and what is left at the path
cleanup_stale_socket(file) ==
  CASE file = "socket" -> [ok |-> TRUE, file |-> "none"]
    [] file = "other" -> [ok |-> FALSE, file |-> file]
    [] OTHER -> [ok |-> TRUE, file |-> file]

\* try_connect_to_hub(path), on what is found at the path and the Hub listening
\* on it (0: none); connecting to a file that is no socket gives an error kind
\* that depends on the platform
try_connect_to_hub(file, listener) ==
  CASE file = "none" -> {"Missing"}
    [] file = "other" -> {"NoListener", "NotSocket"}
    [] file = "socket" /\ listener = 0 -> {"NoListener"}
    [] OTHER -> {"Ok"}

(***************************************************************************)
(* State.  Each specification runs one part of the program and leaves the  *)
(* variables of the other parts at rest.                                   *)
(***************************************************************************)
VARIABLES
  ps_S,        \* parser run: the whole input S
  ps_implicit, \* parser run: add_implicit_start was called before the first chunk
  ps_pos,      \* parser run: number of characters of S fed so far
  ps_calls,    \* parser run: number of add_content calls made
  ps_parser,   \* parser run: the HarmonyParser (state, acc)
  ps_events,   \* parser run: concatenation of the event lists returned so far
  ps_last      \* parser run: buffer seen and events returned by the latest call

parserVars == <<ps_S, ps_implicit, ps_pos, ps_calls, ps_parser, ps_events, ps_last>>

VARIABLES
  fr_caller,    \* frame run: "hub" or "probe", the loop calling read_frame_from_stream
  fr_frames,    \* frame run: the frames the peer writes
  fr_garbage,   \* frame run: bytes the peer writes after them
  fr_wire,      \* frame run: bytes written and not yet read from the socket
  fr_open,      \* frame run: the peer has not closed its end
  fr_truncated, \* frame run: the peer closed before writing everything
  fr_store,     \* frame run: the caller's store buffer
  fr_pc,        \* frame run: "idle" (between calls), "reading" (in a call), "done"
  fr_elapsed,   \* frame run: ms since the current call began
  fr_expiries,  \* frame run: per-read timeouts elapsed during the current call
  fr_result,    \* frame run: outcome of the latest call
  fr_returned,  \* frame run: frames returned by the calls so far
  fr_session    \* frame run: the caller's loop: "open", "ok" or "err"

frameVars == <<fr_caller, fr_frames, fr_garbage, fr_wire, fr_open, fr_truncated, fr_store,
               fr_pc, fr_elapsed, fr_expiries, fr_result, fr_returned, fr_session>>

VARIABLES
  history0,     \* turn: the history run_turn was called with
  messages,     \* turn: run_turn's message list
  pc,           \* turn: "send", "stream", "tools", "failed" (the attempt returned Err),
                \*       "done" (run_turn returned Ok), "error" (run_turn returned Err)
  attempt,      \* turn: run_turn's attempt counter
  err,          \* turn: the error the latest failed attempt returned, or the one
                \*       run_turn returned
  result,       \* turn: the answer returned
  sub,          \* turn: the locals of the current subturn
  calls,        \* turn: the tool calls of the flushed subturn, not yet run
  flush,        \* turn: what the latest flush of this attempt yielded: "none", "clean",
                \*       "calls" or "parse_error"
  last_request, \* turn: the message list of the latest Request written
  sleeps,       \* turn: the backoff sleeps made so far, in ms
  c2h,          \* connection: frames written by the Probe and not yet read by the Hub
  h2c,          \* connection: frames written by the Hub and not yet read by the Probe
  hub_pc,       \* hub session: "reading", "serving", "ok" (ended cleanly), "err"
  gen,          \* hub session: the generation task: pieces left to produce, status
  piece_rx,     \* hub session: the channel from the generation task to serve_one_turn
  hub_produced, \* hub session: pieces produced for the latest Request
  hub_written,  \* hub session: frames written since the latest Request was read
  hub_reads,    \* hub session: Requests read on this connection
  hub_stops     \* hub session: Stop frames written on this connection

turnVars == <<history0, messages, pc, attempt, err, result, sub, calls, flush, last_request,
              sleeps, c2h, h2c, hub_pc, gen, piece_rx, hub_produced, hub_written, hub_reads,
              hub_stops>>

VARIABLES
  tl_can_prompt_user, \* tool loop: display.caps.can_prompt_user
  tl_calls,           \* tool loop: the calls of the flushed subturn
  tl_next,            \* tool loop: index of the call the for loop is at
  tl_pc,              \* tool loop: "gate" (before the gate), "gated" (it returned), "done"
  tl_approved,        \* tool loop: what the gate returned for the current call
  tl_prompts,         \* tool loop: the questions put to the user and the answers
  tl_invoked,         \* tool loop: indices of the calls given to invoke
  tl_messages         \* tool loop: the history

toolVars == <<tl_can_prompt_user, tl_calls, tl_next, tl_pc, tl_approved, tl_prompts,
              tl_invoked, tl_messages>>

VARIABLES
  rt_script,  \* router run: the Answer deltas the Hub will send
  rt_fed,     \* router run: deltas received so far
  rt_sub,     \* router run: the subturn's locals (display parser, handler, texts)
  rt_events,  \* router run: the events the display parser returned so far
  rt_last,    \* router run: the router's state before the latest frame, its events
  rt_flush    \* router run: what handler.add("", true) returned at Stop

routerVars == <<rt_script, rt_fed, rt_sub, rt_events, rt_last, rt_flush>>

VARIABLES
  rd_history, \* render run: the history H
  rd_pc,      \* render run: "new", "rendered" or "parsed"
  rd_prompt,  \* render run: render_prompt_from_history(H, false)
  rd_events   \* render run: the events of a fresh parser fed the prompt

renderVars == <<rd_history, rd_pc, rd_prompt, rd_events>>

VARIABLES
  nm_map,   \* name map run: the FunctionNameMap
  nm_calls  \* name map run: the convert_and_add calls made: input x, returned h

nameVars == <<nm_map, nm_calls>>

VARIABLES
  kv_ctx_cap,        \* generation: ctx.n_ctx()
  kv_preamble_len,   \* generation: tokens of the pinned preamble
  kv_prompt_tokens,  \* generation: the prompt's tokens after clipping
  kv_rolling_tokens, \* generation: the rolling token buffer
  kv_pos,            \* generation: the position the next token is decoded at
  kv_pc,             \* generation: "check" (loop top), "sample" (after the check), "done"
  kv_compacted,      \* generation: the latest loop top rebuilt the window
  kv_compactions,    \* generation: rebuilds so far
  kv_generated,      \* generation: tokens sampled and decoded so far
  kv_max_pos,        \* generation: highest position a token was decoded at, or -1
  kv_toks            \* generation: the prompt's tokens before clipping

inferVars == <<kv_ctx_cap, kv_preamble_len, kv_prompt_tokens, kv_rolling_tokens, kv_pos,
               kv_pc, kv_compacted, kv_compactions, kv_generated, kv_max_pos, kv_toks>>

VARIABLES
  dk_tokens,   \* detokenizer: the byte blobs of the tokens generation will send
  dk_received, \* detokenizer: tokens received from token_id_rx so far
  dk_pending,  \* detokenizer: bytes accumulated and not yet emitted
  dk_pieces,   \* detokenizer: the pieces sent through piece_tx
  dk_pc,       \* detokenizer: "tokens", "closing" (Ok(pending) was returned), "done"
  dk_written   \* detokenizer: the frames serve_one_turn wrote

detokVars == <<dk_tokens, dk_received, dk_pending, dk_pieces, dk_pc, dk_written>>

VARIABLES
  cn_gen,      \* generation thread: "sample", "decode" or "stopped"
  cn_sampled,  \* generation thread: tokens sampled so far
  cn_token_q,  \* the token channel: byte blobs of the tokens sent and not received
  cn_token_rx, \* the token channel: its receiver is alive
  cn_detok,    \* detokenizer task: "recv", "returned" (Ok) or "failed" (a piece send failed)
  cn_pending,  \* detokenizer task: bytes not yet emitted
  cn_piece_q,  \* the piece channel: pieces sent and not received
  cn_piece_rx, \* the piece channel: its receiver is alive
  cn_hub,      \* serve_one_turn: "serving", "failed" (a write failed) or "done"
  cn_after     \* token sends completed and tokens decoded after the piece receiver was dropped

cancelVars == <<cn_gen, cn_sampled, cn_token_q, cn_token_rx, cn_detok, cn_pending, cn_piece_q,
                cn_piece_rx, cn_hub, cn_after>>

VARIABLES
  sb_root,       \* sandbox: the canonicalized working directory
  sb_absolute,   \* sandbox: the input path is absolute
  sb_components, \* sandbox: the components of the input path
  sb_pc,         \* sandbox: "call" or "returned"
  sb_result      \* sandbox: what resolve_path_within_cwd returned

sandboxVars == <<sb_root, sb_absolute, sb_components, sb_pc, sb_result>>

VARIABLES
  hk_before, \* hunk run: the text
  hk_hunk,   \* hunk run: the hunk
  hk_pc,     \* hunk run: "call" or "returned"
  hk_result  \* hunk run: what apply_hunk returned

hunkVars == <<hk_before, hk_hunk, hk_pc, hk_result>>

VARIABLES
  px_call,    \* patch run: the call, overwrite (no markers) or the parsed ops
  px_files,   \* patch run: the content of the files of the workspace
  px_next,    \* patch run: ops executed so far
  px_results, \* patch run: the results pushed so far
  px_after,   \* patch run: the files after each op executed
  px_wrote,   \* patch run: the writes done, each with its mode and no_newline
  px_pc,      \* patch run: "call", "ops", "returned" or "panicked"
  px_value    \* patch run: the value the call returned

patchVars == <<px_call, px_files, px_next, px_results, px_after, px_wrote, px_pc, px_value>>

VARIABLES
  rp_mode,     \* session: "repl" or "oneshot"
  rp_initial,  \* session: what make_history returned
  rp_history,  \* session: the history of the caller of run_turn
  rp_messages, \* session: the history run_turn works on
  rp_pc,       \* session: "start", "prompt", "turn", "subturn", "answered" or "done"
  rp_subturns, \* session: subturns of the running turn so far
  rp_requests, \* session: the histories sent in Requests, with their turn and subturn
  rp_answer,   \* session: the final answer run_turn returned
  rp_turns,    \* session: the turns completed, each with its line, its answer and its messages
  rp_line      \* session: the line of the running turn

replVars == <<rp_mode, rp_initial, rp_history, rp_messages, rp_pc, rp_subturns, rp_requests,
              rp_answer, rp_turns, rp_line>>

VARIABLES
  sg_file,     \* startup: what is at the socket path: "none", "socket" or "other"
  sg_listener, \* startup: the Hub whose listener the socket file leads to, or 0
  sg_daemon,   \* startup: whether PLEASE_SPAWN_HUB is set
  sg_hubs,     \* startup: where each Hub process is
  sg_probes    \* startup: where each Probe is, the Hub it reached and its attempts

startupVars == <<sg_file, sg_listener, sg_daemon, sg_hubs, sg_probes>>

\* the runs of single units
unitVars == <<toolVars, routerVars, renderVars, nameVars, inferVars, detokVars, cancelVars,
             sandboxVars, hunkVars, patchVars, replVars, startupVars>>

vars == <<parserVars, frameVars, turnVars, unitVars>>

\* what the parser runs leave unchanged
parserRest == <<frameVars, turnVars, unitVars>>

\* what the frame runs leave unchanged
frameRest == <<parserVars, turnVars, unitVars>>

\* what the turn leaves unchanged
turnRest == <<parserVars, frameVars, unitVars>>

\* what the tool loop leaves unchanged
toolRest == <<parserVars, frameVars, turnVars, routerVars, renderVars, nameVars, inferVars,
              detokVars, cancelVars, sandboxVars, hunkVars, patchVars, replVars, startupVars>>

\* what the router runs leave unchanged
routerRest == <<parserVars, frameVars, turnVars, toolVars, renderVars, nameVars, inferVars,
                detokVars, cancelVars, sandboxVars, hunkVars, patchVars, replVars, startupVars>>

\* what the render runs leave unchanged
renderRest == <<parserVars, frameVars, turnVars, toolVars, routerVars, nameVars, inferVars,
                detokVars, cancelVars, sandboxVars, hunkVars, patchVars, replVars, startupVars>>

\* what the name map runs leave unchanged
nameRest == <<parserVars, frameVars, turnVars, toolVars, routerVars, renderVars, inferVars,
              detokVars, cancelVars, sandboxVars, hunkVars, patchVars, replVars, startupVars>>

NamesIdle ==
  /\ nm_map = NewNameMap
  /\ nm_calls = <<>>

\* what generation leaves unchanged
inferRest == <<parserVars, frameVars, turnVars, toolVars, routerVars, renderVars, nameVars,
               detokVars, cancelVars, sandboxVars, hunkVars, patchVars, replVars, startupVars>>

InferIdle ==
  /\ kv_toks = <<>>
  /\ kv_ctx_cap = 1
  /\ kv_preamble_len = 0
  /\ kv_prompt_tokens = <<>>
  /\ kv_rolling_tokens = <<>>
  /\ kv_pos = 0
  /\ kv_pc = "done"
  /\ kv_compacted = FALSE
  /\ kv_compactions = 0
  /\ kv_generated = 0
  /\ kv_max_pos = -1

\* what the detokenizer leaves unchanged
detokRest == <<parserVars, frameVars, turnVars, toolVars, routerVars, renderVars, nameVars,
               inferVars, cancelVars, sandboxVars, hunkVars, patchVars, replVars, startupVars>>

DetokIdle ==
  /\ dk_tokens = <<>>
  /\ dk_received = 0
  /\ dk_pending = <<>>
  /\ dk_pieces = <<>>
  /\ dk_pc = "done"
  /\ dk_written = <<>>

RenderIdle ==
  /\ rd_history = <<>>
  /\ rd_pc = "parsed"
  /\ rd_prompt = <<>>
  /\ rd_events = <<>>

\* handler.add was not called with done = true yet
NotFlushed == [done |-> FALSE, ok |-> TRUE, calls |-> <<>>, error |-> <<>>]

RouterIdle ==
  /\ rt_script = <<>>
  /\ rt_fed = 0
  /\ rt_sub = NewSubturn
  /\ rt_events = <<>>
  /\ rt_last = [before |-> "Answering", events |-> <<>>]
  /\ rt_flush = NotFlushed

ToolsIdle ==
  /\ tl_can_prompt_user = FALSE
  /\ tl_calls = <<>>
  /\ tl_next = 1
  /\ tl_pc = "done"
  /\ tl_approved = FALSE
  /\ tl_prompts = <<>>
  /\ tl_invoked = <<>>
  /\ tl_messages = <<>>

\* what the cancellation runs leave unchanged
cancelRest == <<parserVars, frameVars, turnVars, toolVars, routerVars, renderVars, nameVars,
                inferVars, detokVars, sandboxVars, hunkVars, patchVars, replVars, startupVars>>

CancelIdle ==
  /\ cn_gen = "stopped"
  /\ cn_sampled = 0
  /\ cn_token_q = <<>>
  /\ cn_token_rx = FALSE
  /\ cn_detok = "returned"
  /\ cn_pending = <<>>
  /\ cn_piece_q = <<>>
  /\ cn_piece_rx = FALSE
  /\ cn_hub = "done"
  /\ cn_after = [sends |-> 0, decodes |-> 0]

\* what the sandbox runs leave unchanged
sandboxRest == <<parserVars, frameVars, turnVars, toolVars, routerVars, renderVars, nameVars,
                 inferVars, detokVars, cancelVars, hunkVars, patchVars, replVars, startupVars>>

SandboxIdle ==
  /\ sb_root = <<>>
  /\ sb_absolute = FALSE
  /\ sb_components = <<>>
  /\ sb_pc = "returned"
  /\ sb_result = PathOk(<<".">>)

\* what the hunk runs leave unchanged
hunkRest == <<parserVars, frameVars, turnVars, toolVars, routerVars, renderVars, nameVars,
              inferVars, detokVars, cancelVars, sandboxVars, patchVars, replVars, startupVars>>

HunkIdle ==
  /\ hk_before = <<>>
  /\ hk_hunk = [old_lines |-> <<>>, new_lines |-> <<>>]
  /\ hk_pc = "returned"
  /\ hk_result = HunkOk(<<>>)

\* what the patch runs leave unchanged
patchRest == <<parserVars, frameVars, turnVars, toolVars, routerVars, renderVars, nameVars,
               inferVars, detokVars, cancelVars, sandboxVars, hunkVars, replVars, startupVars>>

PatchIdle ==
  /\ px_call = [markers |-> FALSE, path |-> <<>>, content |-> <<>>]
  /\ px_files = <<>>
  /\ px_next = 0
  /\ px_results = <<>>
  /\ px_after = <<>>
  /\ px_wrote = <<>>
  /\ px_pc = "returned"
  /\ px_value = [error |-> "idle"]

\* what the session runs leave unchanged
replRest == <<parserVars, frameVars, turnVars, toolVars, routerVars, renderVars, nameVars,
              inferVars, detokVars, cancelVars, sandboxVars, hunkVars, patchVars, startupVars>>

ReplIdle ==
  /\ rp_mode = "oneshot"
  /\ rp_initial = <<>>
  /\ rp_history = <<>>
  /\ rp_messages = <<>>
  /\ rp_pc = "done"
  /\ rp_subturns = 0
  /\ rp_requests = <<>>
  /\ rp_answer = <<>>
  /\ rp_turns = <<>>
  /\ rp_line = <<>>

\* what the startup runs leave unchanged
startupRest == <<parserVars, frameVars, turnVars, toolVars, routerVars, renderVars, nameVars,
                 inferVars, detokVars, cancelVars, sandboxVars, hunkVars, patchVars, replVars>>

StartupIdle ==
  /\ sg_file = "none"
  /\ sg_listener = 0
  /\ sg_daemon = FALSE
  /\ sg_hubs = <<>>
  /\ sg_probes = <<>>

\* the units at rest
UnitsIdle ==
  ToolsIdle /\ RouterIdle /\ RenderIdle /\ NamesIdle /\ InferIdle /\ DetokIdle /\ CancelIdle
  /\ SandboxIdle /\ HunkIdle /\ PatchIdle /\ ReplIdle /\ StartupIdle

\* no generation running
NoGeneration == [left |-> <<>>, pending |-> FALSE, status |-> "none"]

TurnIdle ==
  /\ history0 = <<>>
  /\ messages = <<>>
  /\ pc = "error"
  /\ attempt = 0
  /\ err = NoErr
  /\ result = <<>>
  /\ sub = NewSubturn
  /\ calls = <<>>
  /\ flush = "none"
  /\ last_request = <<>>
  /\ sleeps = <<>>
  /\ c2h = <<>>
  /\ h2c = <<>>
  /\ hub_pc = "ok"
  /\ gen = NoGeneration
  /\ piece_rx = <<>>
  /\ hub_produced = <<>>
  /\ hub_written = <<>>
  /\ hub_reads = 0
  /\ hub_stops = 0

(***************************************************************************)
(* Bounds of the parser runs.                                              *)
(***************************************************************************)
MaxPieces == 3

MaxChunks == 2

\* The text a stream is assembled from: tags, a tag cut short, plain content.
ParserPieces == {StartTag, HeaderEndTag, EndTag, <<"<","|","e">>, <<"a">>}

RECURSIVE Concats(_, _)
\* all concatenations of at most n pieces
Concats(pieces, n) ==
  IF n = 0 THEN {<<>>}
  ELSE LET prev == Concats(pieces, n - 1)
       IN prev \cup {s \o q : s \in prev, q \in pieces}

FrameIdle ==
  /\ fr_caller = "hub"
  /\ fr_frames = <<>>
  /\ fr_garbage = <<>>
  /\ fr_wire = <<>>
  /\ fr_open = TRUE
  /\ fr_truncated = FALSE
  /\ fr_store = <<>>
  /\ fr_pc = "done"
  /\ fr_elapsed = 0
  /\ fr_expiries = 0
  /\ fr_result = "none"
  /\ fr_returned = <<>>
  /\ fr_session = "open"

ParserIdle ==
  /\ ps_S = <<>>
  /\ ps_implicit = FALSE
  /\ ps_pos = 0
  /\ ps_calls = 0
  /\ ps_parser = NewParser
  /\ ps_events = <<>>
  /\ ps_last = [before |-> "LookingForMessageStart", buffer |-> <<>>, events |-> <<>>]

ParserInit ==
  /\ ps_S \in Concats(ParserPieces, MaxPieces)
  /\ ps_implicit = FALSE
  /\ ps_pos = 0
  /\ ps_calls = 0
  /\ ps_parser = NewParser
  /\ ps_events = <<>>
  /\ ps_last = [before |-> "LookingForMessageStart", buffer |-> <<>>, events |-> <<>>]
  /\ FrameIdle
  /\ TurnIdle
  /\ UnitsIdle

\* p.add_implicit_start() on a fresh parser, as the turn engine and the tests do
ParserAddImplicitStart ==
  /\ ps_calls = 0
  /\ ~ps_implicit
  /\ ps_implicit' = TRUE
  /\ ps_parser' = add_implicit_start(ps_parser)
  /\ UNCHANGED <<ps_S, ps_pos, ps_calls, ps_events, ps_last>>
  /\ UNCHANGED parserRest

\* p.add_content(chunk) for the next chunk of S, of any length
ParserFeed ==
  /\ ps_calls < MaxChunks
  /\ \E n \in 1..(Len(ps_S) - ps_pos) :
       LET chunk == SubSeq(ps_S, ps_pos + 1, ps_pos + n)
           r     == add_content(ps_parser, chunk)
       IN /\ ps_parser' = r.p
          /\ ps_events' = ps_events \o r.events
          /\ ps_last' = [before |-> ps_parser.state, buffer |-> ps_parser.acc \o chunk,
                          events |-> r.events]
          /\ ps_pos' = ps_pos + n
          /\ ps_calls' = ps_calls + 1
  /\ UNCHANGED <<ps_S, ps_implicit>>
  /\ UNCHANGED parserRest

ParserNext == ParserAddImplicitStart \/ ParserFeed

(***************************************************************************)
(* read_frame_from_stream and its two callers (protocol.rs, hub.rs,        *)
(* cli/turn.rs), on a byte stream delivered in arbitrary segments.         *)
(***************************************************************************)
MaxFrames == 2

ChunkSize == 4096

PerReadTimeoutMs == 250

TotalTimeoutMs == 30000

\* Option<Duration>
Some(ms) == [some |-> TRUE, ms |-> ms]

None == [some |-> FALSE, ms |-> 0]

\* the timeouts each caller passes: the Hub's accept loop, the Probe's subturn loop
Timeouts(caller) ==
  IF caller = "hub"
  THEN [per_read |-> Some(PerReadTimeoutMs), total |-> Some(TotalTimeoutMs)]
  ELSE [per_read |-> None, total |-> None]

\* frames a peer may write, and bytes that are no frame
FrameChoices ==
  {Stop, Answer(<<97>>), Request(<<>>), Request(<<Msg("User", <<195, 169>>)>>)}

GarbageChoices == {<<>>, <<7>>, <<2, 1, 255>>}

\* per-read timeouts followed within one call
MaxExpiries == 2

\* how long a read may wait for bytes that do arrive
ArrivalDelays == {0}

\* how late after its deadline a timer may be seen to fire (a timer guarantees
\* only "not before"): at once, or after a stall as long as the total timeout
TimerLags == {0, TotalTimeoutMs}

RECURSIVE SeqsUpTo(_, _)
SeqsUpTo(S, n) ==
  IF n = 0 THEN {<<>>}
  ELSE LET prev == SeqsUpTo(S, n - 1)
       IN prev \cup {Append(q, x) : q \in prev, x \in S}

FrameInit ==
  /\ fr_caller \in {"hub", "probe"}
  /\ fr_frames \in SeqsUpTo(FrameChoices, MaxFrames)
  /\ fr_garbage \in GarbageChoices
  /\ fr_wire = EncFrames(fr_frames) \o fr_garbage
  /\ fr_open = TRUE
  /\ fr_truncated = FALSE
  /\ fr_store = <<>>
  /\ fr_pc = "idle"
  /\ fr_elapsed = 0
  /\ fr_expiries = 0
  /\ fr_result = "none"
  /\ fr_returned = <<>>
  /\ fr_session = "open"
  /\ ParserIdle
  /\ TurnIdle
  /\ UnitsIdle

\* What can go wrong when a decoded frame empties the whole store.
Residual_clear(store, consumed) == <<>>

\* store.drain(0..consumed): the bytes kept for the next call
Residual(store, consumed) == DropFirst(store, consumed)

\* start.elapsed() > total_timeout
TimedOut(elapsed, total) == total.some /\ elapsed > total.ms

Outcome(kind, frame, store) == [kind |-> kind, frame |-> frame, store |-> store]

\* the loop of read_frame_from_stream up to its read: a frame, Decode, Timeout,
\* or "Read" (go on to read the socket)
LoopTop(store, elapsed, total) ==
  LET d == take_from_bytes(store)
  IN IF store # <<>> /\ d.kind = "err" THEN Outcome("Decode", Stop, store)
     ELSE IF store # <<>> /\ d.kind = "ok"
     THEN Outcome("Ok", d.val, Residual(store, Len(store) - Len(d.rest)))
     ELSE IF TimedOut(elapsed, total) THEN Outcome("Timeout", Stop, store)
     ELSE Outcome("Read", Stop, store)

\* What the code would do if an elapsed per-read timeout ended the call.
AfterPerReadTimeout_fail(store, elapsed, total) == Outcome("Timeout", Stop, store)

\* Err(_) of tokio::time::timeout: "per-read timeout, try again"
AfterPerReadTimeout(store, elapsed, total) == LoopTop(store, elapsed, total)

\* What can go wrong when the Hub treats a closed connection like any other error.
HubClassify_strict(o, served) ==
  IF o.kind = "Ok" /\ o.frame.tag = "Request" /\ served THEN "open" ELSE "err"

\* accept_and_serve_request on one read outcome: "ok" (break, Ok(())), "err"
\* (return Err) or "open" (served the Request, wait for the next one)
HubClassify(o, served) ==
  IF o.kind = "Disconnect" THEN "ok"
  ELSE IF o.kind # "Ok" THEN "err"
  ELSE IF o.frame.tag # "Request" THEN "err"
  ELSE IF served THEN "open" ELSE "err"

\* the subturn loop of attempt_turn_on_stream on one read outcome: "err" (the
\* attempt fails), "ok" (Stop: break) or "open" (read the next frame)
ProbeClassify(o) ==
  IF o.kind # "Ok" THEN "err"
  ELSE IF o.frame.tag = "Stop" THEN "ok"
  ELSE "open"

\* the call returns o to its caller, which acts on it
FrameReturn(o, served) ==
  LET session == IF fr_caller = "hub" THEN HubClassify(o, served) ELSE ProbeClassify(o)
  IN /\ fr_result' = o.kind
     /\ fr_returned' = IF o.kind = "Ok" THEN Append(fr_returned, o.frame) ELSE fr_returned
     /\ fr_store' = o.store
     /\ fr_session' = session
     /\ fr_pc' = IF session = "open" THEN "idle" ELSE "done"

\* the call goes on to read the socket, or returns
FrameStep(o, served) ==
  IF o.kind = "Read"
  THEN /\ fr_pc' = "reading"
       /\ fr_store' = o.store
       /\ UNCHANGED <<fr_result, fr_returned, fr_session>>
  ELSE FrameReturn(o, served)

\* the caller calls read_frame_from_stream(stream, &mut store, per_read, total)
FrameCall ==
  /\ fr_pc = "idle"
  /\ fr_elapsed' = 0
  /\ fr_expiries' = 0
  /\ \E served \in BOOLEAN :
       FrameStep(LoopTop(fr_store, 0, Timeouts(fr_caller).total), served)
  /\ UNCHANGED <<fr_caller, fr_frames, fr_garbage, fr_wire, fr_open, fr_truncated>>
  /\ UNCHANGED frameRest

\* Ok(Ok(n)): the read returns the next n bytes, at most a chunk
FrameReadData ==
  /\ fr_pc = "reading"
  /\ fr_wire # <<>>
  /\ \E n \in 1..(IF Len(fr_wire) < ChunkSize THEN Len(fr_wire) ELSE ChunkSize),
        d \in ArrivalDelays, served \in BOOLEAN :
       /\ fr_elapsed' = fr_elapsed + d
       /\ fr_wire' = DropFirst(fr_wire, n)
       /\ FrameStep(LoopTop(fr_store \o SubSeq(fr_wire, 1, n), fr_elapsed + d,
                            Timeouts(fr_caller).total), served)
  /\ UNCHANGED <<fr_caller, fr_frames, fr_garbage, fr_open, fr_truncated, fr_expiries>>
  /\ UNCHANGED frameRest

\* Err(_): nothing arrived within the per-read timeout
FramePerReadTimeout ==
  /\ fr_pc = "reading"
  /\ Timeouts(fr_caller).per_read.some
  /\ ~(fr_wire = <<>> /\ ~fr_open)
  /\ fr_expiries < MaxExpiries
  /\ fr_expiries' = fr_expiries + 1
  /\ \E lag \in TimerLags, served \in BOOLEAN :
       LET e == fr_elapsed + Timeouts(fr_caller).per_read.ms + lag
       IN /\ fr_elapsed' = e
          /\ FrameStep(AfterPerReadTimeout(fr_store, e, Timeouts(fr_caller).total), served)
  /\ UNCHANGED <<fr_caller, fr_frames, fr_garbage, fr_wire, fr_open, fr_truncated>>
  /\ UNCHANGED frameRest

\* Ok(Ok(0)): end of stream
FrameReadEof ==
  /\ fr_pc = "reading"
  /\ fr_wire = <<>>
  /\ ~fr_open
  /\ FrameReturn(Outcome("Disconnect", Stop, fr_store), FALSE)
  /\ UNCHANGED <<fr_caller, fr_frames, fr_garbage, fr_wire, fr_open, fr_truncated,
                 fr_elapsed, fr_expiries>>
  /\ UNCHANGED frameRest

\* Ok(Err(e)): the read fails
FrameReadIoError ==
  /\ fr_pc = "reading"
  /\ FrameReturn(Outcome("Io", Stop, fr_store), FALSE)
  /\ UNCHANGED <<fr_caller, fr_frames, fr_garbage, fr_wire, fr_open, fr_truncated,
                 fr_elapsed, fr_expiries>>
  /\ UNCHANGED frameRest

\* the peer closes its end, having written all or only part of its bytes
FramePeerCloses ==
  /\ fr_open
  /\ fr_pc # "done"
  /\ fr_open' = FALSE
  /\ \E k \in 0..Len(fr_wire) :
       /\ fr_wire' = SubSeq(fr_wire, 1, k)
       /\ fr_truncated' = (k < Len(fr_wire))
  /\ UNCHANGED <<fr_caller, fr_frames, fr_garbage, fr_store, fr_pc, fr_elapsed, fr_expiries,
                 fr_result, fr_returned, fr_session>>
  /\ UNCHANGED frameRest

FrameNext ==
  \/ FrameCall
  \/ FrameReadData
  \/ FramePerReadTimeout
  \/ FrameReadEof
  \/ FrameReadIoError
  \/ FramePeerCloses

(***************************************************************************)
(* One turn: run_turn and attempt_turn_on_stream (cli/turn.rs) talking to  *)
(* the Hub's accept_and_serve_request and serve_one_turn (hub.rs) over one *)
(* connection at a time.  Frames travel whole and in order.                *)
(***************************************************************************)
\* messages a turn may append to its history and still send a Request
MaxAppended == 1

\* what a turn may begin with
InitialHistories ==
  {<<Msg("User", <<"q">>)>>, <<Msg("System", <<"s">>), Msg("User", <<"q">>)>>}

\* a final answer
ScriptFinal ==
  <<<<"<","|","c","h","a","n","n","e","l","|",">","f","i","n","a","l","<","|","m","e","s","s",
      "a","g","e","|",">">>,
    <<"o","k">>>>

\* a tool call with well-formed arguments
ScriptCall ==
  <<<<"<","|","c","h","a","n","n","e","l","|",">","c","o","m","m","e","n","t","a","r","y"," ",
      "t","o","=","f","u","n","c","t","i","o","n","s",".","r","u","n","_","c","o","m","m","a",
          "n","d"," ","<","|","c","o","n","s","t","r","a","i","n","|",">","j","s","o","n","<",
              "|","m","e","s","s","a","g","e","|",">">>,
    <<"{","}">>>>

\* a tool call whose arguments end early
ScriptBadCall ==
  <<<<"<","|","c","h","a","n","n","e","l","|",">","c","o","m","m","e","n","t","a","r","y"," ",
      "t","o","=","f","u","n","c","t","i","o","n","s",".","r","e","a","d","_","f","i","l","e",
          "<","|","m","e","s","s","a","g","e","|",">","{">>>>

\* reasoning, then a final answer, cut inside the end tag
ScriptThink ==
  <<<<"<","|","c","h","a","n","n","e","l","|",">","a","n","a","l","y","s","i","s","<","|","m",
      "e","s","s","a","g","e","|",">","t","<","|","e">>,
    <<"n","d","|",">","<","|","s","t","a","r","t","|",">","a","s","s","i","s","t","a","n","t",
        "<","|","c","h","a","n","n","e","l","|",">","f","i","n","a","l","<","|","m","e","s","s",
            "a","g","e","|",">","a">>>>

\* what generation may produce for a Request: the pieces, and whether an
\* incomplete character is left pending at the end
Generations ==
  {[pieces |-> <<>>, pending |-> FALSE],
   [pieces |-> ScriptFinal, pending |-> FALSE],
   [pieces |-> ScriptCall, pending |-> FALSE],
   [pieces |-> ScriptBadCall, pending |-> FALSE],
   [pieces |-> ScriptThink, pending |-> TRUE]}

\* errors a write to a connection the Hub has left may give
WriteFaults == {IoErr("BrokenPipe"), IoErr("PermissionDenied")}

\* errors a read may give besides Disconnect
ReadFaults == {ProtocolErr("Io", "ConnectionReset"), ProtocolErr("Decode", "")}

\* run_turn(stream, display, messages) is called on a connected stream
Init ==
  /\ history0 \in InitialHistories
  /\ messages = history0
  /\ pc = "send"
  /\ attempt = 0
  /\ err = NoErr
  /\ result = <<>>
  /\ sub = NewSubturn
  /\ calls = <<>>
  /\ flush = "none"
  /\ last_request = <<>>
  /\ sleeps = <<>>
  /\ c2h = <<>>
  /\ h2c = <<>>
  /\ hub_pc = "reading"
  /\ gen = NoGeneration
  /\ piece_rx = <<>>
  /\ hub_produced = <<>>
  /\ hub_written = <<>>
  /\ hub_reads = 0
  /\ hub_stops = 0
  /\ ParserIdle
  /\ FrameIdle
  /\ UnitsIdle

hubOpen == hub_pc \in {"reading", "serving"}

\* lines 32-51: the engine writes Request{messages.clone()} and resets the
\* subturn's locals; writing to a connection the Hub has left may still succeed
\* (the bytes are lost) or fail
ProbeSendRequest ==
  /\ pc = "send"
  /\ Len(messages) - Len(history0) <= MaxAppended
  /\ \/ /\ c2h' = IF hubOpen THEN Append(c2h, Request(messages)) ELSE c2h
        /\ last_request' = messages
        /\ sub' = NewSubturn
        /\ pc' = "stream"
        /\ UNCHANGED err
     \/ /\ ~hubOpen
        /\ err' \in WriteFaults
        /\ pc' = "failed"
        /\ UNCHANGED <<c2h, last_request, sub>>
  /\ UNCHANGED <<history0, messages, attempt, result, calls, flush, sleeps, h2c,
                 hub_pc, gen, piece_rx, hub_produced, hub_written, hub_reads, hub_stops>>
  /\ UNCHANGED turnRest

\* lines 55-122: a Log, Answer or Request frame arrives
ProbeReadFrame ==
  /\ pc = "stream"
  /\ h2c # <<>>
  /\ Head(h2c).tag # "Stop"
  /\ h2c' = Tail(h2c)
  /\ sub' = IF Head(h2c).tag = "Answer" THEN on_answer(sub, Head(h2c).text) ELSE sub
  /\ UNCHANGED <<history0, messages, pc, attempt, err, result, calls, flush,
                 last_request, sleeps, c2h, hub_pc, gen, piece_rx, hub_produced, hub_written,
                 hub_reads, hub_stops>>
  /\ UNCHANGED turnRest

\* lines 120-160: Stop arrives; the router is flushed, the subturn's messages are
\* pushed, and the engine returns, continues, or goes on to run the tools
ProbeReadStop ==
  /\ pc = "stream"
  /\ h2c # <<>>
  /\ Head(h2c).tag = "Stop"
  /\ h2c' = Tail(h2c)
  /\ \E f \in {handler_add(sub.handler, <<>>, TRUE)} :
       \E next \in {AfterFlush(f.calls, ~f.ok)} :
         /\ messages' = Flushed(messages, sub, f)
         /\ flush' = IF ~f.ok THEN "parse_error"
                     ELSE IF f.calls # <<>> THEN "calls" ELSE "clean"
         /\ calls' = IF next = "tools" THEN f.calls ELSE <<>>
         /\ pc' = CASE next = "return" -> "done"
                    [] next = "continue" -> "send"
                    [] OTHER -> "tools"
         /\ result' = IF next = "return" THEN sub.final_answer ELSE result
  /\ sub' = NewSubturn
  /\ UNCHANGED <<history0, attempt, err, last_request, sleeps, c2h, hub_pc, gen,
                 piece_rx, hub_produced, hub_written, hub_reads, hub_stops>>
  /\ UNCHANGED turnRest

\* lines 163-190: every call is shown, gated, invoked unless denied, and its
\* Tool message pushed
ProbeRunTools ==
  /\ pc = "tools"
  /\ \E approved \in [1..Len(calls) -> BOOLEAN] :
       \E results \in [1..Len(calls) -> UNION {InvokeResults(calls[i].name) : i \in 1..Len(calls)}] :
         /\ \A i \in 1..Len(calls) :
              /\ ~Risky(calls[i].name) => approved[i]
              /\ results[i] \in InvokeResults(calls[i].name)
         /\ messages' = messages \o
              [i \in 1..Len(calls) |-> ToolMessage(calls[i], approved[i], results[i])]
  /\ calls' = <<>>
  /\ pc' = "send"
  /\ UNCHANGED <<history0, attempt, err, result, sub, flush, last_request, sleeps,
                 c2h, h2c, hub_pc, gen, piece_rx, hub_produced, hub_written, hub_reads,
                 hub_stops>>
  /\ UNCHANGED turnRest

\* protocol.rs:99: the read returns 0 bytes after the Hub closed the connection
ProbeReadDisconnect ==
  /\ pc = "stream"
  /\ h2c = <<>>
  /\ ~hubOpen
  /\ err' = ProtocolErr("Disconnect", "")
  /\ pc' = "failed"
  /\ sub' = NewSubturn
  /\ UNCHANGED <<history0, messages, attempt, result, calls, flush, last_request,
                 sleeps, c2h, h2c, hub_pc, gen, piece_rx, hub_produced, hub_written,
                 hub_reads, hub_stops>>
  /\ UNCHANGED turnRest

\* protocol.rs:79,98: the read fails, or the bytes received are no frame
ProbeReadError ==
  /\ pc = "stream"
  /\ err' \in ReadFaults
  /\ pc' = "failed"
  /\ sub' = NewSubturn
  /\ UNCHANGED <<history0, messages, attempt, result, calls, flush, last_request,
                 sleeps, c2h, h2c, hub_pc, gen, piece_rx, hub_produced, hub_written,
                 hub_reads, hub_stops>>
  /\ UNCHANGED turnRest

\* run_turn, lines 226-241: the attempt returned Err(e)
RunTurnOnError ==
  /\ pc = "failed"
  /\ IF ~is_disconnect(err) \/ GivesUp(attempt)
       THEN /\ pc' = "error"
            /\ UNCHANGED <<messages, attempt, err, flush, sleeps, c2h, h2c, hub_pc,
                           gen, piece_rx, hub_produced, hub_written, hub_reads, hub_stops>>
       ELSE /\ sleeps' = Append(sleeps, Backoff(attempt))
            /\ \/ /\ pc' = "error"
                  /\ err' = ConnectErr
                  /\ UNCHANGED <<messages, attempt, flush, c2h, h2c, hub_pc, gen,
                                 piece_rx, hub_produced, hub_written, hub_reads, hub_stops>>
               \/ /\ c2h' = <<>>
                  /\ h2c' = <<>>
                  /\ hub_pc' = "reading"
                  /\ gen' = NoGeneration
                  /\ piece_rx' = <<>>
                  /\ hub_produced' = <<>>
                  /\ hub_written' = <<>>
                  /\ hub_reads' = 0
                  /\ hub_stops' = 0
                  /\ attempt' = attempt + 1
                  /\ messages' = RetryHistory(messages, history0)
                  /\ flush' = "none"
                  /\ pc' = "send"
                  /\ UNCHANGED err
  /\ UNCHANGED <<history0, result, sub, calls, last_request>>
  /\ UNCHANGED turnRest

\* hub.rs:114-134: the Hub reads a frame; a Request starts serve_one_turn, which
\* spawns the generation
HubReadRequest ==
  /\ hub_pc = "reading"
  /\ c2h # <<>>
  /\ c2h' = Tail(c2h)
  /\ IF Head(c2h).tag = "Request"
       THEN /\ hub_pc' = "serving"
            /\ \E g \in Generations :
                 gen' = [left |-> g.pieces, pending |-> g.pending, status |-> "running"]
            /\ hub_reads' = hub_reads + 1
            /\ hub_produced' = <<>>
            /\ hub_written' = <<>>
       ELSE /\ hub_pc' = "err"
            /\ UNCHANGED <<gen, hub_reads, hub_produced, hub_written>>
  /\ UNCHANGED <<history0, messages, pc, attempt, err, result, sub, calls, flush,
                 last_request, sleeps, h2c, piece_rx, hub_stops>>
  /\ UNCHANGED turnRest

\* inference.rs: the generation task sends its next piece into the channel
GenProduce ==
  /\ gen.status = "running"
  /\ gen.left # <<>>
  /\ piece_rx' = Append(piece_rx, Head(gen.left))
  /\ hub_produced' = Append(hub_produced, Head(gen.left))
  /\ gen' = [gen EXCEPT !.left = Tail(@)]
  /\ UNCHANGED <<history0, messages, pc, attempt, err, result, sub, calls, flush,
                 last_request, sleeps, c2h, h2c, hub_pc, hub_written, hub_reads, hub_stops>>
  /\ UNCHANGED turnRest

\* inference.rs: the generation task ends and drops its sender: after its last
\* piece, with or without an incomplete character pending, or with an error
GenFinish ==
  /\ gen.status = "running"
  /\ \/ /\ gen.left = <<>>
        /\ gen' = [gen EXCEPT !.status = "ok"]
     \/ gen' = [left |-> <<>>, pending |-> FALSE, status |-> "failed"]
  /\ UNCHANGED <<history0, messages, pc, attempt, err, result, sub, calls, flush,
                 last_request, sleeps, c2h, h2c, hub_pc, piece_rx, hub_produced, hub_written,
                 hub_reads, hub_stops>>
  /\ UNCHANGED turnRest

\* hub.rs:83-85: a piece received from the channel is written as an Answer
HubWriteAnswer ==
  /\ hub_pc = "serving"
  /\ piece_rx # <<>>
  /\ piece_rx' = Tail(piece_rx)
  /\ h2c' = Append(h2c, Answer(Head(piece_rx)))
  /\ hub_written' = Append(hub_written, Answer(Head(piece_rx)))
  /\ UNCHANGED <<history0, messages, pc, attempt, err, result, sub, calls, flush,
                 last_request, sleeps, c2h, hub_pc, gen, hub_produced, hub_reads, hub_stops>>
  /\ UNCHANGED turnRest

\* hub.rs:87-101 and 131-134: the channel is closed and drained; a failed
\* generation ends the session, otherwise the closing frames are written and the
\* Hub reads on
HubEndTurn ==
  /\ hub_pc = "serving"
  /\ piece_rx = <<>>
  /\ gen.status \in {"ok", "failed"}
  /\ IF gen.status = "failed"
       THEN /\ hub_pc' = "err"
            /\ UNCHANGED <<h2c, hub_written, hub_stops>>
       ELSE /\ h2c' = h2c \o ClosingFrames(gen.pending)
            /\ hub_written' = hub_written \o ClosingFrames(gen.pending)
            /\ hub_stops' = hub_stops + 1
            /\ hub_pc' = "reading"
  /\ gen' = NoGeneration
  /\ UNCHANGED <<history0, messages, pc, attempt, err, result, sub, calls, flush,
                 last_request, sleeps, c2h, piece_rx, hub_produced, hub_reads>>
  /\ UNCHANGED turnRest

\* hub.rs:126: waiting for a Request, the read fails (Timeout, Io) and the
\* session ends with the error
HubReadFails ==
  /\ hub_pc = "reading"
  /\ c2h = <<>>
  /\ pc \in {"send", "stream", "tools"}
  /\ hub_pc' = "err"
  /\ UNCHANGED <<history0, messages, pc, attempt, err, result, sub, calls, flush,
                 last_request, sleeps, c2h, h2c, gen, piece_rx, hub_produced, hub_written,
                 hub_reads, hub_stops>>
  /\ UNCHANGED turnRest

Next ==
  \/ ProbeSendRequest
  \/ ProbeReadFrame
  \/ ProbeReadStop
  \/ ProbeRunTools
  \/ ProbeReadDisconnect
  \/ ProbeReadError
  \/ RunTurnOnError
  \/ HubReadRequest
  \/ GenProduce
  \/ GenFinish
  \/ HubWriteAnswer
  \/ HubEndTurn
  \/ HubReadFails

(***************************************************************************)
(* The tool loop of attempt_turn_on_stream (cli/turn.rs:163-190), call by  *)
(* call: the gate may wait for the user, so it is a step of its own.       *)
(***************************************************************************)
\* calls a flushed subturn may hold
MaxCalls == 2

\* a name no tool has
UnknownTool == <<"x">>

\* the calls the router may hand over
CallChoices ==
  {[name |-> n, arguments |-> <<"{", "}">>] :
     n \in {RunCommand, ApplyPatch, ReadFile, ListFiles, UnknownTool}}

\* the for loop is entered with at least one call, on a terminal or not
ToolsInit ==
  /\ tl_can_prompt_user \in BOOLEAN
  /\ tl_calls \in SeqsUpTo(CallChoices, MaxCalls) \ {<<>>}
  /\ tl_next = 1
  /\ tl_pc = "gate"
  /\ tl_approved = FALSE
  /\ tl_prompts = <<>>
  /\ tl_invoked = <<>>
  /\ tl_messages = <<Msg("User", <<"q">>)>>
  /\ ParserIdle
  /\ FrameIdle
  /\ TurnIdle
  /\ RouterIdle
  /\ RenderIdle
  /\ NamesIdle
  /\ InferIdle
  /\ DetokIdle
  /\ CancelIdle
  /\ SandboxIdle
  /\ HunkIdle
  /\ PatchIdle
  /\ ReplIdle
  /\ StartupIdle

\* lines 168-170: the call is shown and the gate is passed
ToolGate ==
  /\ tl_pc = "gate"
  /\ \E answer \in BOOLEAN :
       \E g \in {gate_risky_if_needed(tl_can_prompt_user, tl_calls[tl_next].name, answer)} :
         /\ tl_approved' = g.approved
         /\ tl_prompts' = IF g.prompted
                            THEN Append(tl_prompts, [call |-> tl_next, answer |-> answer])
                            ELSE tl_prompts
  /\ tl_pc' = "gated"
  /\ UNCHANGED <<tl_can_prompt_user, tl_calls, tl_next, tl_invoked, tl_messages>>
  /\ UNCHANGED toolRest

\* lines 171-178: the call was denied; its Tool message is pushed and the loop
\* continues
ToolDeny ==
  /\ tl_pc = "gated"
  /\ ~tl_approved
  /\ tl_messages' = Append(tl_messages, ToolMessage(tl_calls[tl_next], FALSE, <<>>))
  /\ tl_next' = tl_next + 1
  /\ tl_pc' = IF tl_next = Len(tl_calls) THEN "done" ELSE "gate"
  /\ UNCHANGED <<tl_can_prompt_user, tl_calls, tl_approved, tl_prompts, tl_invoked>>
  /\ UNCHANGED toolRest

\* lines 180-188: the call is invoked and its Tool message pushed
ToolInvoke ==
  /\ tl_pc = "gated"
  /\ tl_approved
  /\ tl_invoked' = Append(tl_invoked, tl_next)
  /\ \E res \in InvokeResults(tl_calls[tl_next].name) :
       tl_messages' = Append(tl_messages, ToolMessage(tl_calls[tl_next], TRUE, res))
  /\ tl_next' = tl_next + 1
  /\ tl_pc' = IF tl_next = Len(tl_calls) THEN "done" ELSE "gate"
  /\ UNCHANGED <<tl_can_prompt_user, tl_calls, tl_approved, tl_prompts>>
  /\ UNCHANGED toolRest

ToolsNext == ToolGate \/ ToolDeny \/ ToolInvoke

(***************************************************************************)
(* One subturn's stream (cli/turn.rs:55-143): every Answer delta goes to   *)
(* the display parser and to the handler; Stop flushes the handler.        *)
(***************************************************************************)
\* the pieces of the stream one delta carries, at most
MaxDeltas == 2

\* " to=functions.read_file"
ToReadFile == <<" ">> \o ToPrefix \o FunctionsPrefix \o ReadFile

\* the headers generation may continue the implicit start with: a channel or
\* none, then a recipient or none
RouterHeaders ==
  {ch \o to \o HeaderEndTag :
     ch \in {<<>>, ChannelTag \o Analysis, ChannelTag \o Commentary, ChannelTag \o Final},
     to \in {<<>>, ToReadFile}}

\* a message after the first: a final answer
RouterFollowUp ==
  StartTag \o <<"a","s","s","i","s","t","a","n","t">> \o ChannelTag \o Final \o HeaderEndTag
  \o <<"b">> \o EndTag

\* " to=functions.list_files"
ToListFiles == <<" ">> \o ToPrefix \o FunctionsPrefix \o ListFiles

\* a message after the first: a call of another tool whose body ends an object
RouterSecondCall ==
  StartTag \o <<"a","s","s","i","s","t","a","n","t">> \o ChannelTag \o Commentary
  \o ToListFiles \o HeaderEndTag \o <<"}">> \o EndTag

\* a message after the first: a call without a body
RouterEmptyCall ==
  StartTag \o <<"a","s","s","i","s","t","a","n","t">> \o ChannelTag \o Commentary
  \o ToListFiles \o HeaderEndTag \o EndTag

\* the bodies of the first message: an object, text, an object left open, and
\* text that ends like the beginning of a tag
RouterBodies == {<<"{", "}">>, <<"a">>, <<"{">>, <<"a", "<">>}

\* what the Hub may stream in a subturn: header, body, terminator, and perhaps a
\* second message
RouterScripts ==
  {<<h, b, t>> \o f :
     h \in RouterHeaders, b \in RouterBodies, t \in {EndTag, CallTag},
     f \in {<<>>, <<RouterFollowUp>>, <<RouterSecondCall>>, <<RouterEmptyCall>>}}

RECURSIVE Flatten(_)
\* the concatenation of a sequence of texts
Flatten(ts) == IF ts = <<>> THEN <<>> ELSE Head(ts) \o Flatten(Tail(ts))

\* lines 44-53: the locals of a new subturn
RouterInit ==
  /\ rt_script \in RouterScripts
  /\ rt_fed = 0
  /\ rt_sub = NewSubturn
  /\ rt_events = <<>>
  /\ rt_last = [before |-> "Answering", events |-> <<>>]
  /\ rt_flush = NotFlushed
  /\ ParserIdle
  /\ FrameIdle
  /\ TurnIdle
  /\ ToolsIdle
  /\ RenderIdle
  /\ NamesIdle
  /\ InferIdle
  /\ DetokIdle
  /\ CancelIdle
  /\ SandboxIdle
  /\ HunkIdle
  /\ PatchIdle
  /\ ReplIdle
  /\ StartupIdle

\* lines 64-119: Frame::Answer(delta), the delta being the next pieces of the
\* stream
RouterAnswer ==
  /\ ~rt_flush.done
  /\ \E n \in 1..MaxDeltas :
       /\ rt_fed + n <= Len(rt_script)
       /\ \E delta \in {Flatten(SubSeq(rt_script, rt_fed + 1, rt_fed + n))} :
            \E r \in {add_content(rt_sub.parser, delta)} :
              /\ rt_sub' = on_answer(rt_sub, delta)
              /\ rt_events' = rt_events \o r.events
              /\ rt_last' = [before |-> rt_sub.handler.state, events |-> r.events]
       /\ rt_fed' = rt_fed + n
  /\ UNCHANGED <<rt_script, rt_flush>>
  /\ UNCHANGED routerRest

\* lines 120-143: Frame::Stop ends the stream and the handler is flushed
RouterStop ==
  /\ ~rt_flush.done
  /\ \E f \in {handler_add(rt_sub.handler, <<>>, TRUE)} :
       rt_flush' = [done |-> TRUE, ok |-> f.ok, calls |-> f.calls, error |-> f.error]
  /\ UNCHANGED <<rt_script, rt_fed, rt_sub, rt_events, rt_last>>
  /\ UNCHANGED routerRest

RouterNext == RouterAnswer \/ RouterStop

(***************************************************************************)
(* A history rendered and parsed back.                                     *)
(***************************************************************************)
\* messages of a history
MaxHistory == 2

\* the messages a history may hold: one of each plain role, and the Tool payloads
HistoryMessages ==
  {Msg("System", <<"s">>), Msg("Developer", <<"d">>), Msg("User", <<"q">>),
   Msg("Reasoning", <<"t">>), Msg("Assistant", <<"a">>), Msg("Tool", MalformedTool)}
  \cup {Msg("Tool", v.text) : v \in ToolValues}

RenderInit ==
  /\ rd_history \in SeqsUpTo(HistoryMessages, MaxHistory)
  /\ rd_pc = "new"
  /\ rd_prompt = <<>>
  /\ rd_events = <<>>
  /\ ParserIdle
  /\ FrameIdle
  /\ TurnIdle
  /\ ToolsIdle
  /\ RouterIdle
  /\ NamesIdle
  /\ InferIdle
  /\ DetokIdle
  /\ CancelIdle
  /\ SandboxIdle
  /\ HunkIdle
  /\ PatchIdle
  /\ ReplIdle
  /\ StartupIdle

\* render_prompt_from_history(H, false)
Render ==
  /\ rd_pc = "new"
  /\ rd_prompt' = render_prompt_from_history(rd_history, FALSE)
  /\ rd_pc' = "rendered"
  /\ UNCHANGED <<rd_history, rd_events>>
  /\ UNCHANGED renderRest

\* render_prompt_from_history(H, true), as generation calls it (inference.rs:43)
RenderCued ==
  /\ rd_pc = "new"
  /\ rd_prompt' = render_prompt_from_history(rd_history, TRUE)
  /\ rd_pc' = "cued"
  /\ UNCHANGED <<rd_history, rd_events>>
  /\ UNCHANGED renderRest

\* HarmonyParser::new().add_content(prompt)
ParseRendered ==
  /\ rd_pc = "rendered"
  /\ rd_events' = add_content(NewParser, rd_prompt).events
  /\ rd_pc' = "parsed"
  /\ UNCHANGED <<rd_history, rd_prompt>>
  /\ UNCHANGED renderRest

RenderNext == Render \/ RenderCued \/ ParseRendered

(***************************************************************************)
(* A FunctionNameMap under a sequence of convert_and_add calls.            *)
(***************************************************************************)
\* convert_and_add calls on one map
MaxNames == 3

\* the names tools may be registered under: the built-in python, names with
\* separators, with a character that is dropped, a leading digit, a suffix
UserNames ==
  {<<"p","y","t","h","o","n">>, <<"p","y","t","h","o","n","!">>, <<"a"," ","b">>,
   <<"a","_","b">>, <<"a","_","b","_","2">>, <<"1","a">>, <<"!">>,
   <<"b","r","o","w","s","e","r",".","o","p","e","n">>}

NamesInit ==
  /\ nm_map = NewNameMap
  /\ nm_calls = <<>>
  /\ ParserIdle
  /\ FrameIdle
  /\ TurnIdle
  /\ ToolsIdle
  /\ RouterIdle
  /\ RenderIdle
  /\ InferIdle
  /\ DetokIdle
  /\ CancelIdle
  /\ SandboxIdle
  /\ HunkIdle
  /\ PatchIdle
  /\ ReplIdle
  /\ StartupIdle

\* map.convert_and_add(x)
ConvertAndAdd ==
  /\ Len(nm_calls) < MaxNames
  /\ \E x \in UserNames :
       \E r \in {convert_and_add(nm_map, x)} :
         /\ nm_map' = r.m
         /\ nm_calls' = Append(nm_calls, [x |-> x, h |-> r.harmony])
  /\ UNCHANGED nameRest

NamesNext == ConvertAndAdd

(***************************************************************************)
(* The decoding loop of infer_token_ids_into_stream (inference.rs:97-142). *)
(***************************************************************************)
\* tokens generated in one run
MaxGenerated == 4

\* context sizes: the smallest ones, and two where the slack leaves a tail
ContextSizes == {1, 2, 3, SlackFloor + 3, SlackFloor + 4}

\* prompt lengths tried for a context: around its size
PromptLengths(ctx_cap) == {n \in {1, ctx_cap - 2, ctx_cap - 1, ctx_cap, ctx_cap + 2} : n >= 1}

\* preamble lengths tried: compute_preamble_len clamps to ctx_cap - 1, and the
\* preamble's tokens are among the prompt's
PreambleLengths(ctx_cap, prompt_len) ==
  {n \in {0, 1, ctx_cap - 2, ctx_cap - 1} :
     n >= 0 /\ n <= SetMin({prompt_len, saturating_sub(ctx_cap, 1)})}

\* a token generated, as opposed to the prompt's tokens 1, 2, ...
Generated == 0

\* lines 62-99: the prompt is tokenized, clipped and prefilled
InferInit ==
  /\ kv_ctx_cap \in ContextSizes
  /\ \E prompt_len \in PromptLengths(kv_ctx_cap) :
       /\ kv_preamble_len \in PreambleLengths(kv_ctx_cap, prompt_len)
       /\ kv_toks = [i \in 1..prompt_len |-> i]
       /\ kv_prompt_tokens =
            tokenize_clip_to_ctx([i \in 1..prompt_len |-> i], kv_preamble_len, kv_ctx_cap)
  /\ kv_rolling_tokens = kv_prompt_tokens
  /\ kv_pos = Len(kv_prompt_tokens)
  /\ kv_pc = "check"
  /\ kv_compacted = FALSE
  /\ kv_compactions = 0
  /\ kv_generated = 0
  /\ kv_max_pos = Len(kv_prompt_tokens) - 1
  /\ ParserIdle
  /\ FrameIdle
  /\ TurnIdle
  /\ ToolsIdle
  /\ RouterIdle
  /\ RenderIdle
  /\ NamesIdle
  /\ DetokIdle
  /\ CancelIdle
  /\ SandboxIdle
  /\ HunkIdle
  /\ PatchIdle
  /\ ReplIdle
  /\ StartupIdle

\* lines 101-115: the loop top; at or over the context limit the window is rebuilt
InferCheck ==
  /\ kv_pc = "check"
  /\ IF kv_pos >= kv_ctx_cap
       THEN \E compact \in {rebuild_kv_with_sliding_window(kv_rolling_tokens,
                                                           kv_preamble_len, kv_ctx_cap)} :
              /\ kv_rolling_tokens' = compact
              /\ kv_pos' = Len(compact)
              /\ kv_max_pos' = SetMax({kv_max_pos, Len(compact) - 1})
              /\ kv_compacted' = TRUE
              /\ kv_compactions' = kv_compactions + 1
       ELSE /\ kv_compacted' = FALSE
            /\ UNCHANGED <<kv_rolling_tokens, kv_pos, kv_max_pos, kv_compactions>>
  /\ kv_pc' = "sample"
  /\ UNCHANGED <<kv_ctx_cap, kv_preamble_len, kv_prompt_tokens, kv_generated, kv_toks>>
  /\ UNCHANGED inferRest

\* lines 117-139: a token is sampled, streamed, decoded at pos and pushed
InferStep ==
  /\ kv_pc = "sample"
  /\ kv_generated < MaxGenerated
  /\ kv_max_pos' = SetMax({kv_max_pos, kv_pos})
  /\ kv_pos' = kv_pos + 1
  /\ kv_rolling_tokens' = Append(kv_rolling_tokens, Generated)
  /\ kv_generated' = kv_generated + 1
  /\ kv_pc' = "check"
  /\ UNCHANGED <<kv_ctx_cap, kv_preamble_len, kv_prompt_tokens, kv_compacted, kv_compactions,
                 kv_toks>>
  /\ UNCHANGED inferRest

\* lines 118-121 and 127-131: the token ends generation, or the consumer is gone
InferBreak ==
  /\ kv_pc = "sample"
  /\ kv_pc' = "done"
  /\ UNCHANGED <<kv_ctx_cap, kv_preamble_len, kv_prompt_tokens, kv_rolling_tokens, kv_pos,
                 kv_compacted, kv_compactions, kv_generated, kv_max_pos, kv_toks>>
  /\ UNCHANGED inferRest

InferNext == InferCheck \/ InferStep \/ InferBreak

(***************************************************************************)
(* Tokens to pieces to frames: the receive loop of infer_into_stream and   *)
(* the frames serve_one_turn (hub.rs:83-99) writes for its result.         *)
(***************************************************************************)
\* tokens of one generation
MaxTokens == 3

\* what token_to_bytes may give: a, the euro sign in two parts, its last byte
\* with the lead byte of the next character, a lone lead byte, a byte no UTF-8
\* text holds
TokenBlobs ==
  {<<97>>, <<226, 130>>, <<172>>, <<172, 195>>, <<195>>, <<255>>}

\* lines 148-174: generation is spawned, nothing pending
DetokInit ==
  /\ dk_tokens \in SeqsUpTo(TokenBlobs, MaxTokens)
  /\ dk_received = 0
  /\ dk_pending = <<>>
  /\ dk_pieces = <<>>
  /\ dk_pc = "tokens"
  /\ dk_written = <<>>
  /\ ParserIdle
  /\ FrameIdle
  /\ TurnIdle
  /\ ToolsIdle
  /\ RouterIdle
  /\ RenderIdle
  /\ NamesIdle
  /\ InferIdle
  /\ CancelIdle
  /\ SandboxIdle
  /\ HunkIdle
  /\ PatchIdle
  /\ ReplIdle
  /\ StartupIdle

\* lines 176-206: a token is received, its bytes join pending, and what is
\* valid of pending is sent on
DetokToken ==
  /\ dk_pc = "tokens"
  /\ dk_received < Len(dk_tokens)
  /\ \E r \in {emit_valid(dk_pending \o dk_tokens[dk_received + 1], <<>>)} :
       /\ dk_pending' = r.pending
       /\ dk_pieces' = dk_pieces \o r.pieces
  /\ dk_received' = dk_received + 1
  /\ UNCHANGED <<dk_tokens, dk_pc, dk_written>>
  /\ UNCHANGED detokRest

\* lines 176, 209-211: the token channel is closed and Ok(pending) returned
DetokReturn ==
  /\ dk_pc = "tokens"
  /\ dk_received = Len(dk_tokens)
  /\ dk_pc' = "closing"
  /\ UNCHANGED <<dk_tokens, dk_received, dk_pending, dk_pieces, dk_written>>
  /\ UNCHANGED detokRest

\* hub.rs:83-99: every piece went out as an Answer; the closing frames follow
DetokServed ==
  /\ dk_pc = "closing"
  /\ dk_written' = [i \in 1..Len(dk_pieces) |-> Answer(dk_pieces[i])]
                    \o ClosingFrames(dk_pending # <<>>)
  /\ dk_pc' = "done"
  /\ UNCHANGED <<dk_tokens, dk_received, dk_pending, dk_pieces>>
  /\ UNCHANGED detokRest

DetokNext == DetokToken \/ DetokReturn \/ DetokServed

(***************************************************************************)
(* A generation and its consumers: the generation thread                   *)
(* (inference.rs:101-142), the detokenizer task (inference.rs:154-211) and *)
(* serve_one_turn (hub.rs:76-99), joined by two unbounded channels.        *)
(***************************************************************************)
\* tokens sampled in one generation
MaxSampled == 3

\* what a sampled token's bytes may be: a, the euro sign in two parts
SampledBlobs == {<<97>>, <<226, 130>>, <<172>>}

\* hub.rs:76-84, inference.rs:154-174: both tasks spawned, both channels open
CancelInit ==
  /\ cn_gen = "sample"
  /\ cn_sampled = 0
  /\ cn_token_q = <<>>
  /\ cn_token_rx = TRUE
  /\ cn_detok = "recv"
  /\ cn_pending = <<>>
  /\ cn_piece_q = <<>>
  /\ cn_piece_rx = TRUE
  /\ cn_hub = "serving"
  /\ cn_after = [sends |-> 0, decodes |-> 0]
  /\ ParserIdle
  /\ FrameIdle
  /\ TurnIdle
  /\ ToolsIdle
  /\ RouterIdle
  /\ RenderIdle
  /\ NamesIdle
  /\ InferIdle
  /\ DetokIdle
  /\ SandboxIdle
  /\ HunkIdle
  /\ PatchIdle
  /\ ReplIdle
  /\ StartupIdle

\* inference.rs:117-131: a token is sampled and sent; a failed send breaks the loop
GenSend ==
  /\ cn_gen = "sample"
  /\ cn_sampled < MaxSampled
  /\ cn_sampled' = cn_sampled + 1
  /\ IF cn_token_rx
       THEN /\ \E b \in SampledBlobs : cn_token_q' = Append(cn_token_q, b)
            /\ cn_gen' = "decode"
            /\ cn_after' = IF cn_piece_rx THEN cn_after
                            ELSE [cn_after EXCEPT !.sends = @ + 1]
       ELSE /\ cn_gen' = "stopped"
            /\ UNCHANGED <<cn_token_q, cn_after>>
  /\ UNCHANGED <<cn_token_rx, cn_detok, cn_pending, cn_piece_q, cn_piece_rx, cn_hub>>
  /\ UNCHANGED cancelRest

\* inference.rs:133-141: the token sent is decoded
GenDecode ==
  /\ cn_gen = "decode"
  /\ cn_gen' = "sample"
  /\ cn_after' = IF cn_after.sends > cn_after.decodes
                   THEN [cn_after EXCEPT !.decodes = @ + 1]
                   ELSE cn_after
  /\ UNCHANGED <<cn_sampled, cn_token_q, cn_token_rx, cn_detok, cn_pending, cn_piece_q,
                 cn_piece_rx, cn_hub>>
  /\ UNCHANGED cancelRest

\* inference.rs:117-121: an end-of-generation token is sampled
GenEog ==
  /\ cn_gen = "sample"
  /\ cn_gen' = "stopped"
  /\ UNCHANGED <<cn_sampled, cn_token_q, cn_token_rx, cn_detok, cn_pending, cn_piece_q,
                 cn_piece_rx, cn_hub, cn_after>>
  /\ UNCHANGED cancelRest

\* inference.rs:176-206: a token is received; a piece send that fails ends the
\* task with an error, which drops the token receiver
DetokRecv ==
  /\ cn_detok = "recv"
  /\ cn_token_q # <<>>
  /\ cn_token_q' = Tail(cn_token_q)
  /\ \E r \in {emit_valid(cn_pending \o Head(cn_token_q), <<>>)} :
       IF r.pieces # <<>> /\ ~cn_piece_rx
         THEN /\ cn_detok' = "failed"
              /\ cn_token_rx' = FALSE
              /\ UNCHANGED <<cn_pending, cn_piece_q>>
         ELSE /\ cn_pending' = r.pending
              /\ cn_piece_q' = cn_piece_q \o r.pieces
              /\ UNCHANGED <<cn_detok, cn_token_rx>>
  /\ UNCHANGED <<cn_gen, cn_sampled, cn_piece_rx, cn_hub, cn_after>>
  /\ UNCHANGED cancelRest

\* inference.rs:176, 209-211: the token channel is closed and empty
DetokClosed ==
  /\ cn_detok = "recv"
  /\ cn_token_q = <<>>
  /\ cn_gen = "stopped"
  /\ cn_detok' = "returned"
  /\ cn_token_rx' = FALSE
  /\ UNCHANGED <<cn_gen, cn_sampled, cn_token_q, cn_pending, cn_piece_q, cn_piece_rx,
                 cn_hub, cn_after>>
  /\ UNCHANGED cancelRest

\* hub.rs:86-88: a piece is written as an Answer; a write that fails returns
\* the error, which drops the piece receiver
HubWritePiece ==
  /\ cn_hub = "serving"
  /\ cn_piece_q # <<>>
  /\ cn_piece_q' = Tail(cn_piece_q)
  /\ \E written \in BOOLEAN :
       IF written
         THEN UNCHANGED <<cn_hub, cn_piece_rx>>
         ELSE cn_hub' = "failed" /\ cn_piece_rx' = FALSE
  /\ UNCHANGED <<cn_gen, cn_sampled, cn_token_q, cn_token_rx, cn_detok, cn_pending,
                 cn_after>>
  /\ UNCHANGED cancelRest

\* hub.rs:86, 90-99: the piece channel is closed and empty
HubClosed ==
  /\ cn_hub = "serving"
  /\ cn_piece_q = <<>>
  /\ cn_detok # "recv"
  /\ cn_hub' = "done"
  /\ cn_piece_rx' = FALSE
  /\ UNCHANGED <<cn_gen, cn_sampled, cn_token_q, cn_token_rx, cn_detok, cn_pending,
                 cn_piece_q, cn_after>>
  /\ UNCHANGED cancelRest

CancelNext ==
  \/ GenSend
  \/ GenDecode
  \/ GenEog
  \/ DetokRecv
  \/ DetokClosed
  \/ HubWritePiece
  \/ HubClosed

(***************************************************************************)
(* resolve_path_within_cwd called on a path.                               *)
(***************************************************************************)
\* components of an input path
MaxComponents == 3

\* names an input path is made of
PathNames == {".", "..", "a", "f", "up", "in", "out", "dang", "x", "w", "etc"}

\* working directories
Roots == {<<"w">>, <<"w", "a">>}

SandboxInit ==
  /\ sb_root \in Roots
  /\ sb_absolute \in BOOLEAN
  /\ sb_components \in SeqsUpTo(PathNames, MaxComponents)
  /\ sb_pc = "call"
  /\ sb_result = PathOk(<<".">>)
  /\ ParserIdle
  /\ FrameIdle
  /\ TurnIdle
  /\ ToolsIdle
  /\ RouterIdle
  /\ RenderIdle
  /\ NamesIdle
  /\ InferIdle
  /\ CancelIdle
  /\ DetokIdle
  /\ HunkIdle
  /\ PatchIdle
  /\ ReplIdle
  /\ StartupIdle

\* lines 92-166
Resolve ==
  /\ sb_pc = "call"
  /\ sb_pc' = "returned"
  /\ \E r \in {resolve_path_within_cwd(sb_root, sb_absolute, sb_components)} :
       sb_result' = r
  /\ UNCHANGED <<sb_root, sb_absolute, sb_components>>
  /\ UNCHANGED sandboxRest

SandboxNext == Resolve

(***************************************************************************)
(* apply_hunk called on a text and a hunk.                                 *)
(***************************************************************************)
\* lines of a text, of the old and of the new side of a hunk
MaxLines == 2

\* a line longer than the preview, with a two-byte character across its limit
LongLine == [i \in 1..(PreviewLimit - 1) |-> "a"] \o <<Wide>>

TextLines == {<<>>, <<"a">>, <<"a", " ">>, <<"b", "a">>}

OldLines == {<<>>, <<"a">>, <<"a", " ", " ">>, LongLine}

NewLines == {<<>>, <<"b">>}

\* texts with and without a newline at the end
Texts ==
  {join_lines(ls) : ls \in SeqsUpTo(TextLines, MaxLines)}
    \cup {Append(join_lines(ls), Newline) : ls \in SeqsUpTo(TextLines, MaxLines)}

Hunks ==
  [old_lines : SeqsUpTo(OldLines, MaxLines), new_lines : SeqsUpTo(NewLines, MaxLines)]

HunkInit ==
  /\ hk_before \in Texts
  /\ hk_hunk \in Hunks
  /\ hk_pc = "call"
  /\ hk_result = HunkOk(<<>>)
  /\ ParserIdle
  /\ FrameIdle
  /\ TurnIdle
  /\ ToolsIdle
  /\ RouterIdle
  /\ RenderIdle
  /\ NamesIdle
  /\ InferIdle
  /\ CancelIdle
  /\ SandboxIdle
  /\ DetokIdle
  /\ PatchIdle
  /\ ReplIdle
  /\ StartupIdle

\* applying.rs:20-56
ApplyHunk ==
  /\ hk_pc = "call"
  /\ hk_pc' = "returned"
  /\ \E r \in {apply_hunk(hk_before, hk_hunk)} : hk_result' = r
  /\ UNCHANGED <<hk_before, hk_hunk>>
  /\ UNCHANGED hunkRest

HunkNext == ApplyHunk

(***************************************************************************)
(* apply_patch called in overwrite mode or with parsed ops.                *)
(***************************************************************************)
\* ops of one patch
MaxOps == 2

\* the files the ops may name, by resolved path
PatchFiles == {<<"x">>, <<"a", "f">>}

Hunk(old_lines, new_lines) == [old_lines |-> old_lines, new_lines |-> new_lines]

Add(path, content, no_newline) ==
  [op |-> "add", path |-> path, content |-> content, no_newline |-> no_newline,
   hunks |-> <<>>]

Delete(path) ==
  [op |-> "delete", path |-> path, content |-> <<>>, no_newline |-> FALSE, hunks |-> <<>>]

Update(path, hunks, no_newline) ==
  [op |-> "update", path |-> path, content |-> <<>>, no_newline |-> no_newline,
   hunks |-> hunks]

\* ops that succeed, ops that fail in the sandbox, on read, on write and on a
\* hunk, and an op whose missed hunk is longer than the preview
OpChoices ==
  {Add(<<"x">>, <<"b", Newline, Newline>>, FALSE),
   Add(<<"x">>, <<"b", Newline>>, TRUE),
   Add(<<"..", "x">>, <<"b">>, FALSE),
   Add(<<"a">>, <<"b">>, FALSE),
   Delete(<<"x">>),
   Delete(<<"a">>),
   Update(<<"in", "f">>, <<Hunk(<<<<"a">>>>, <<<<"b">>>>)>>, FALSE),
   Update(<<"x">>, <<Hunk(<<<<"c">>>>, <<>>), Hunk(<<>>, <<<<"b">>>>),
                     Hunk(<<<<"c">>>>, <<>>)>>, FALSE),
   Update(<<"x">>, <<Hunk(<<>>, <<<<"b">>>>)>>, TRUE),
   Update(<<"a">>, <<Hunk(<<>>, <<<<"b">>>>)>>, FALSE),
   Update(<<"out", "p">>, <<Hunk(<<>>, <<<<"b">>>>)>>, FALSE),
   Update(<<"x">>, <<Hunk(<<LongLine>>, <<>>)>>, FALSE)}

NoPath == [some |-> FALSE, value |-> <<>>]

GivenPath(p) == [some |-> TRUE, value |-> p]

\* overwrite mode: the argument path may be absent
OverwriteCalls ==
  [markers : {FALSE}, path : {NoPath, GivenPath(<<"x">>), GivenPath(<<"..", "x">>)},
   content : {<<>>, <<"b">>, <<"b", Newline>>, <<"b", Newline, Newline>>}]

PatchCalls == [markers : {TRUE}, ops : SeqsUpTo(OpChoices, MaxOps)]

PatchInit ==
  /\ px_call \in OverwriteCalls \cup PatchCalls
  /\ px_files \in [PatchFiles -> {Missing, <<"a", " ", Newline, "b">>}]
  /\ px_next = 0
  /\ px_results = <<>>
  /\ px_after = <<>>
  /\ px_wrote = <<>>
  /\ px_pc = "call"
  /\ px_value = [error |-> "none"]
  /\ ParserIdle
  /\ FrameIdle
  /\ TurnIdle
  /\ ToolsIdle
  /\ RouterIdle
  /\ RenderIdle
  /\ NamesIdle
  /\ InferIdle
  /\ CancelIdle
  /\ SandboxIdle
  /\ HunkIdle
  /\ DetokIdle
  /\ ReplIdle
  /\ StartupIdle

\* apply_patch.rs:31-41: without markers the content is written to `path`
Overwrite ==
  /\ px_pc = "call"
  /\ ~px_call.markers
  /\ px_pc' = "returned"
  /\ IF ~px_call.path.some
       THEN /\ px_value' = [error |-> "overwrite mode requires path"]
            /\ UNCHANGED <<px_files, px_wrote>>
       ELSE \E res \in {write_verbatim_within_cwd(px_files, px_call.path.value,
                                                   px_call.content)} :
              /\ px_files' = res.files
              /\ px_wrote' = [i \in 1..Len(res.wrote) |->
                                [mode |-> "overwrite", no_newline |-> FALSE,
                                 path |-> res.wrote[i].path,
                                 content |-> res.wrote[i].content]]
              /\ px_value' = IF res.io.ok
                               THEN [ok |-> TRUE, mode |-> "overwrite",
                                     path |-> px_call.path.value]
                               ELSE [error |-> res.io.kind]
  /\ UNCHANGED <<px_call, px_next, px_results, px_after>>
  /\ UNCHANGED patchRest

\* apply_patch.rs:44-47: with markers the parsed ops are executed
PatchMode ==
  /\ px_pc = "call"
  /\ px_call.markers
  /\ px_pc' = "ops"
  /\ UNCHANGED <<px_call, px_files, px_next, px_results, px_after, px_wrote, px_value>>
  /\ UNCHANGED patchRest

\* filesystem.rs:46-101: the next op is executed and its result pushed
ExecuteOp ==
  /\ px_pc = "ops"
  /\ px_next < Len(px_call.ops)
  /\ \E r \in {execute_patch_op(px_files, px_call.ops[px_next + 1])} :
       IF r.panicked
         THEN /\ px_pc' = "panicked"
              /\ UNCHANGED <<px_files, px_next, px_results, px_after, px_wrote>>
         ELSE /\ px_files' = r.files
              /\ px_next' = px_next + 1
              /\ px_results' = Append(px_results, r.result)
              /\ px_after' = Append(px_after, r.files)
              /\ px_wrote' = px_wrote \o
                   [i \in 1..Len(r.wrote) |->
                      [mode |-> "patch", no_newline |-> px_call.ops[px_next + 1].no_newline,
                       path |-> r.wrote[i].path, content |-> r.wrote[i].content]]
              /\ UNCHANGED px_pc
  /\ UNCHANGED <<px_call, px_value>>
  /\ UNCHANGED patchRest

\* filesystem.rs:103
ExecuteReturn ==
  /\ px_pc = "ops"
  /\ px_next = Len(px_call.ops)
  /\ px_pc' = "returned"
  /\ px_value' = [ok |-> TRUE, mode |-> "patch", results |-> px_results]
  /\ UNCHANGED <<px_call, px_files, px_next, px_results, px_after, px_wrote>>
  /\ UNCHANGED patchRest

PatchNext == Overwrite \/ PatchMode \/ ExecuteOp \/ ExecuteReturn

(***************************************************************************)
(* A session: make_history, then the REPL or one turn (cli/run.rs:40-73,   *)
(* cli/repl.rs:18-36), over run_turn with its subturns (cli/turn.rs).      *)
(***************************************************************************)
\* turns of one session
MaxTurns == 2

\* subturns of one turn
MaxSubturns == 2

\* what a subturn may end with: reasoning, answer and final answer collected,
\* and what the terminal flush of the handler gave
SubturnOutcomes ==
  {[sub |-> [reasoning |-> <<>>, answer |-> <<"a">>, final_answer |-> <<"a">>],
    flush |-> [ok |-> TRUE, calls |-> <<>>, error |-> <<>>]],
   [sub |-> [reasoning |-> <<"t">>, answer |-> <<>>, final_answer |-> <<>>],
    flush |-> [ok |-> TRUE, calls |-> <<[name |-> ReadFile, arguments |-> <<"{", "}">>]>>,
               error |-> <<>>]],
   [sub |-> [reasoning |-> <<"t">>, answer |-> <<"a">>, final_answer |-> <<"a">>],
    flush |-> [ok |-> FALSE, calls |-> <<>>, error |-> <<"e">>]]}

StdinContents == {NoText, SomeText(<<" ">>), SomeText(<<"i">>)}

StdoutRedirections == {NoText, SomeText(<<>>), SomeText(<<"p">>)}

\* cli/run.rs:34-40 and 67: the REPL runs only when stdin, stdout and stderr
\* are terminals, and then there is no stdin content and no redirection
ReplInit ==
  /\ rp_mode \in {"repl", "oneshot"}
  /\ \E i \in StdinContents, o \in StdoutRedirections :
       /\ rp_mode = "repl" => i = NoText /\ o = NoText
       /\ rp_initial = make_history(i, o)
       /\ rp_history = make_history(i, o)
  /\ rp_messages = <<>>
  /\ rp_pc = "start"
  /\ rp_subturns = 0
  /\ rp_requests = <<>>
  /\ rp_answer = <<>>
  /\ rp_turns = <<>>
  /\ rp_line = <<>>
  /\ ParserIdle
  /\ FrameIdle
  /\ TurnIdle
  /\ ToolsIdle
  /\ RouterIdle
  /\ RenderIdle
  /\ NamesIdle
  /\ InferIdle
  /\ CancelIdle
  /\ SandboxIdle
  /\ HunkIdle
  /\ PatchIdle
  /\ DetokIdle
  /\ StartupIdle

\* cli/run.rs:67-68: interactive mode
ReplEnter ==
  /\ rp_pc = "start"
  /\ rp_mode = "repl"
  /\ rp_pc' = "prompt"
  /\ UNCHANGED <<rp_mode, rp_initial, rp_history, rp_messages, rp_subturns, rp_requests,
                 rp_answer, rp_turns, rp_line>>
  /\ UNCHANGED replRest

\* cli/run.rs:71-72: one shot, the history is moved into run_turn
OneShot ==
  /\ rp_pc = "start"
  /\ rp_mode = "oneshot"
  /\ \E prompt \in {<<>>, <<"q">>} :
       /\ rp_history' = Append(rp_history, Msg("User", prompt))
       /\ rp_messages' = Append(rp_history, Msg("User", prompt))
       /\ rp_line' = prompt
  /\ rp_subturns' = 0
  /\ rp_pc' = "turn"
  /\ UNCHANGED <<rp_mode, rp_initial, rp_requests, rp_answer, rp_turns>>
  /\ UNCHANGED replRest

\* repl.rs:20-32: a line is read, pushed, and run_turn called on a clone
ReplReadLine ==
  /\ rp_pc = "prompt"
  /\ Len(rp_turns) < MaxTurns
  /\ \E line \in {<<"q">>, <<"r">>} :
       /\ rp_history' = Append(rp_history, Msg("User", line))
       /\ rp_messages' = Append(rp_history, Msg("User", line))
       /\ rp_line' = line
  /\ rp_subturns' = 0
  /\ rp_pc' = "turn"
  /\ UNCHANGED <<rp_mode, rp_initial, rp_requests, rp_answer, rp_turns>>
  /\ UNCHANGED replRest

\* repl.rs:20-28: end of input or an empty line
ReplQuit ==
  /\ rp_pc = "prompt"
  /\ rp_pc' = "done"
  /\ UNCHANGED <<rp_mode, rp_initial, rp_history, rp_messages, rp_subturns, rp_requests,
                 rp_answer, rp_turns, rp_line>>
  /\ UNCHANGED replRest

\* turn.rs:35-42: the Request of a subturn carries the whole history
TurnRequest ==
  /\ rp_pc = "turn"
  /\ rp_requests' = Append(rp_requests, [turn |-> Len(rp_turns) + 1,
                                          subturn |-> rp_subturns + 1,
                                          messages |-> rp_messages])
  /\ rp_pc' = "subturn"
  /\ UNCHANGED <<rp_mode, rp_initial, rp_history, rp_messages, rp_subturns, rp_answer,
                 rp_turns, rp_line>>
  /\ UNCHANGED replRest

\* turn.rs:129-190: after Stop the history is extended; the turn returns its
\* answer or goes on to the next subturn
TurnSubturn ==
  /\ rp_pc = "subturn"
  /\ \E o \in SubturnOutcomes, approved \in BOOLEAN :
       \E flushed \in {Flushed(rp_messages, o.sub, o.flush)} :
         \E next \in {AfterFlush(o.flush.calls, ~o.flush.ok)} :
           /\ next # "return" => rp_subturns + 1 < MaxSubturns
           /\ rp_messages' =
                IF next = "tools"
                  THEN flushed \o [i \in 1..Len(o.flush.calls) |->
                                     ToolMessage(o.flush.calls[i], approved,
                                                 <<"{","\"","o","k","\"",":","t","r","u","e","}">>)]
                  ELSE flushed
           /\ rp_answer' = IF next = "return" THEN o.sub.final_answer ELSE rp_answer
           /\ rp_pc' = IF next = "return" THEN "answered" ELSE "turn"
  /\ rp_subturns' = rp_subturns + 1
  /\ UNCHANGED <<rp_mode, rp_initial, rp_history, rp_requests, rp_turns, rp_line>>
  /\ UNCHANGED replRest

\* turn.rs:221-227, repl.rs:32, run.rs:72: run_turn returns an error
TurnFails ==
  /\ rp_pc = "subturn"
  /\ rp_pc' = "done"
  /\ UNCHANGED <<rp_mode, rp_initial, rp_history, rp_messages, rp_subturns, rp_requests,
                 rp_answer, rp_turns, rp_line>>
  /\ UNCHANGED replRest

\* repl.rs:32-35, run.rs:72-75: run_turn returned its answer
TurnReturns ==
  /\ rp_pc = "answered"
  /\ rp_turns' = Append(rp_turns, [line |-> rp_line, answer |-> rp_answer,
                                    messages |-> rp_messages])
  /\ IF rp_mode = "repl"
       THEN /\ rp_history' = after_turn(rp_history, rp_messages, rp_answer)
            /\ rp_pc' = "prompt"
       ELSE /\ rp_pc' = "done"
            /\ UNCHANGED rp_history
  /\ UNCHANGED <<rp_mode, rp_initial, rp_messages, rp_subturns, rp_requests, rp_answer,
                 rp_line>>
  /\ UNCHANGED replRest

ReplNext ==
  \/ ReplEnter
  \/ OneShot
  \/ ReplReadLine
  \/ ReplQuit
  \/ TurnRequest
  \/ TurnSubturn
  \/ TurnFails
  \/ TurnReturns

(***************************************************************************)
(* Startup: Hub processes running hub::run and Probes running              *)
(* obtain_control_stream on one socket path.                               *)
(***************************************************************************)
\* Hub processes that may be started
MaxHubs == 2

\* Probes
MaxProbes == 2

\* connect attempts after start_hub before the fallback (connect.rs:110)
MaxAttempts == 3

HubIds == 1..MaxHubs

ProbeIds == 1..MaxProbes

ProbeAt(at, hub, attempts) == [pc |-> at, hub |-> hub, attempts |-> attempts]

StartupInit ==
  /\ sg_file \in {"none", "socket", "other"}
  /\ sg_listener = 0
  /\ sg_daemon \in BOOLEAN
  /\ sg_hubs = [h \in HubIds |-> "idle"]
  /\ sg_probes = [p \in ProbeIds |-> ProbeAt("start", 0, 0)]
  /\ ParserIdle
  /\ FrameIdle
  /\ TurnIdle
  /\ ToolsIdle
  /\ RouterIdle
  /\ RenderIdle
  /\ NamesIdle
  /\ InferIdle
  /\ CancelIdle
  /\ SandboxIdle
  /\ HunkIdle
  /\ PatchIdle
  /\ ReplIdle
  /\ DetokIdle

\* a Hub process is started by hand
HubRun ==
  /\ \E h \in HubIds :
       /\ sg_hubs[h] = "idle"
       /\ sg_hubs' = [sg_hubs EXCEPT ![h] = "started"]
  /\ UNCHANGED <<sg_file, sg_listener, sg_daemon, sg_probes>>
  /\ UNCHANGED startupRest

\* hub.rs:144-146
HubCleanup ==
  /\ \E h \in HubIds :
       /\ sg_hubs[h] = "started"
       /\ \E r \in {cleanup_stale_socket(sg_file)} :
            /\ sg_hubs' = [sg_hubs EXCEPT ![h] = IF r.ok THEN "cleaned" ELSE "failed"]
            /\ sg_file' = r.file
            /\ sg_listener' = IF r.file = sg_file THEN sg_listener ELSE 0
  /\ UNCHANGED <<sg_daemon, sg_probes>>
  /\ UNCHANGED startupRest

\* hub.rs:148: bind fails when the path is taken
HubBind ==
  /\ \E h \in HubIds :
       /\ sg_hubs[h] = "cleaned"
       /\ IF sg_file = "none"
            THEN /\ sg_hubs' = [sg_hubs EXCEPT ![h] = "listening"]
                 /\ sg_file' = "socket"
                 /\ sg_listener' = h
            ELSE /\ sg_hubs' = [sg_hubs EXCEPT ![h] = "failed"]
                 /\ UNCHANGED <<sg_file, sg_listener>>
  /\ UNCHANGED <<sg_daemon, sg_probes>>
  /\ UNCHANGED startupRest

\* hub.rs:151-160: the model is loaded, the accept loop starts
HubLoadModel ==
  /\ \E h \in HubIds :
       /\ sg_hubs[h] = "listening"
       /\ sg_hubs' = [sg_hubs EXCEPT ![h] = "serving"]
  /\ UNCHANGED <<sg_file, sg_listener, sg_daemon, sg_probes>>
  /\ UNCHANGED startupRest

\* hub.rs:152-157, 163: the Hub process ends (no model, accept fails, killed);
\* the socket file stays, its connections are closed
HubExit ==
  /\ \E h \in HubIds :
       /\ sg_hubs[h] \in {"listening", "serving"}
       /\ sg_hubs' = [sg_hubs EXCEPT ![h] = "exited"]
       /\ sg_listener' = IF sg_listener = h THEN 0 ELSE sg_listener
       /\ sg_probes' = [p \in ProbeIds |->
                          IF sg_probes[p].pc = "connected" /\ sg_probes[p].hub = h
                            THEN ProbeAt("exited", 0, 0)
                            ELSE sg_probes[p]]
  /\ UNCHANGED <<sg_file, sg_daemon>>
  /\ UNCHANGED startupRest

\* connect.rs:76-89: the first attempt
ProbeTryConnect ==
  /\ \E p \in ProbeIds :
       /\ sg_probes[p].pc = "start"
       /\ \E r \in try_connect_to_hub(sg_file, sg_listener) :
            sg_probes' = [sg_probes EXCEPT ![p] =
                            IF r = "Ok" THEN ProbeAt("connected", sg_listener, 0)
                                        ELSE ProbeAt("no_listener", 0, 0)]
  /\ UNCHANGED <<sg_file, sg_listener, sg_daemon, sg_hubs>>
  /\ UNCHANGED startupRest

\* connect.rs:94-96 with 62-72: a Hub process is spawned, readiness not awaited
ProbeStartHub ==
  /\ sg_daemon
  /\ \E p \in ProbeIds, h \in HubIds :
       /\ sg_probes[p].pc = "no_listener"
       /\ sg_hubs[h] = "idle"
       /\ sg_hubs' = [sg_hubs EXCEPT ![h] = "started"]
       /\ sg_probes' = [sg_probes EXCEPT ![p] = ProbeAt("waiting", 0, 0)]
  /\ UNCHANGED <<sg_file, sg_listener, sg_daemon>>
  /\ UNCHANGED startupRest

\* connect.rs:98-118: one round of the loop after start_hub
ProbeRetryConnect ==
  /\ \E p \in ProbeIds :
       /\ sg_probes[p].pc = "waiting"
       /\ \E r \in try_connect_to_hub(sg_file, sg_listener) :
            sg_probes' = [sg_probes EXCEPT ![p] =
                            CASE r = "Ok" -> ProbeAt("connected", sg_listener, 0)
                              [] r = "NotSocket" -> ProbeAt("failed", 0, 0)
                              [] sg_probes[p].attempts + 1 > MaxAttempts ->
                                   ProbeAt("fallback", 0, 0)
                              [] OTHER -> ProbeAt("waiting", 0, sg_probes[p].attempts + 1)]
  /\ UNCHANGED <<sg_file, sg_listener, sg_daemon, sg_hubs>>
  /\ UNCHANGED startupRest

\* connect.rs:121-123 with hub.rs:176-196: a Hub inside the Probe's process
\* loads the model and serves the Probe over a stream pair
ProbeEmbed ==
  /\ \E p \in ProbeIds :
       /\ \/ sg_probes[p].pc = "no_listener" /\ ~sg_daemon
          \/ sg_probes[p].pc = "fallback"
       /\ sg_probes' = [sg_probes EXCEPT ![p] = ProbeAt("embedded", 0, 0)]
  /\ UNCHANGED <<sg_file, sg_listener, sg_daemon, sg_hubs>>
  /\ UNCHANGED startupRest

\* the Probe's session ends
ProbeExit ==
  /\ \E p \in ProbeIds :
       /\ sg_probes[p].pc \in {"connected", "embedded"}
       /\ sg_probes' = [sg_probes EXCEPT ![p] = ProbeAt("exited", 0, 0)]
  /\ UNCHANGED <<sg_file, sg_listener, sg_daemon, sg_hubs>>
  /\ UNCHANGED startupRest

StartupNext ==
  \/ HubRun
  \/ HubCleanup
  \/ HubBind
  \/ HubLoadModel
  \/ HubExit
  \/ ProbeTryConnect
  \/ ProbeStartHub
  \/ ProbeRetryConnect
  \/ ProbeEmbed
  \/ ProbeExit

(***************************************************************************)
(* Specifications.                                                         *)
(***************************************************************************)
\* the Harmony parser fed a stream in chunks
SpecParser == ParserInit /\ [][ParserNext]_vars

\* read_frame_from_stream under its callers
SpecFrame == FrameInit /\ [][FrameNext]_vars

\* one turn of the Probe against the Hub
Spec == Init /\ [][Next]_vars

\* the tool loop of one subturn
SpecTools == ToolsInit /\ [][ToolsNext]_vars

\* the stream of one subturn
SpecRouter == RouterInit /\ [][RouterNext]_vars

\* a history rendered and parsed back
SpecRender == RenderInit /\ [][RenderNext]_vars

\* a name map filled call by call
SpecNames == NamesInit /\ [][NamesNext]_vars

\* the decoding loop over its token window
SpecInfer == InferInit /\ [][InferNext]_vars

\* the detokenizer between generation and the Hub's frames
SpecDetok == DetokInit /\ [][DetokNext]_vars

\* a generation whose consumer may go away
SpecCancel == CancelInit /\ [][CancelNext]_vars

\* the sandbox on every short path
SpecSandbox == SandboxInit /\ [][SandboxNext]_vars

\* one hunk applied to one text
SpecHunk == HunkInit /\ [][HunkNext]_vars

\* one call of apply_patch
SpecPatch == PatchInit /\ [][PatchNext]_vars

\* a session of turns
SpecRepl == ReplInit /\ [][ReplNext]_vars

\* Hubs starting and Probes reaching them
SpecStartup == StartupInit /\ [][StartupNext]_vars

(***************************************************************************)
(* Properties.                                                             *)
(***************************************************************************)
\* the events of feeding all of S in a single add_content call
WholeRun ==
  add_content(IF ps_implicit THEN add_implicit_start(NewParser) ELSE NewParser, ps_S)

RECURSIVE Coalesce(_)
\* an event sequence with every run of adjacent ContentEmitted merged into one
Coalesce(evs) ==
  IF Len(evs) < 2 THEN evs
  ELSE IF evs[1].type = "ContentEmitted" /\ evs[2].type = "ContentEmitted"
       THEN Coalesce(<<ContentEmitted(evs[1].content \o evs[2].content)>>
                     \o DropFirst(evs, 2))
       ELSE <<evs[1]>> \o Coalesce(Tail(evs))

AllFed == ps_calls > 0 /\ ps_pos = Len(ps_S)

\* C6 (as stated): once every chunk of S has been fed, the concatenated event
\* lists equal the event list of feeding S in one call.
C6_ChunkInvarianceExact == AllFed => ps_events = WholeRun.events

\* C6 (amended): the chunked run yields the events of the single call up to
\* fragmentation of content: merging adjacent ContentEmitted events gives the
\* single call's event list, and the parser ends in the same state.
C6_ChunkInvarianceUpToFragments ==
  AllFed => /\ Coalesce(ps_events) = WholeRun.events
            /\ ps_parser = WholeRun.p

\* C6 witness: a message fed in two chunks whose content came out in fragments.
C6_Witness ==
  /\ AllFed
  /\ ps_calls = 2
  /\ ps_events # WholeRun.events
  /\ \E i \in 1..Len(ps_events) : ps_events[i].type = "MessageEnd"

LastContent ==
  IF ps_last.events # <<>> /\ ps_last.events[Len(ps_last.events)].type = "ContentEmitted"
  THEN ps_last.events[Len(ps_last.events)].content
  ELSE <<>>

OnlyContent(evs) == \A i \in 1..Len(evs) : evs[i].type = "ContentEmitted"

\* C7: whenever add_content returns in ParsingContent, the retained buffer is
\* empty or a nonempty proper prefix of the end tag; the content emitted last
\* by the call followed by the retained suffix is the end of the buffer (all of
\* it when the call began and stayed inside the content), and every suffix of that text
\* that is a nonempty prefix of the end tag lies inside the retained part.
C7_ChunkSafety ==
  (ps_calls > 0 /\ ps_parser.state = "ParsingContent") =>
    LET acc  == ps_parser.acc
        tail == LastContent \o acc
    IN /\ Len(acc) < Len(EndTag)
       /\ StartsWith(EndTag, acc)
       /\ EndsWith(ps_last.buffer, tail)
       /\ (ps_last.before = "ParsingContent" /\ OnlyContent(ps_last.events)
           => tail = ps_last.buffer)
       /\ \A k \in 1..(Len(EndTag) - 1) :
            EndsWith(tail, SubSeq(EndTag, 1, k)) => Len(acc) >= k

\* C7 witness: a call returned content and held back a cut end tag.
C7_Witness ==
  /\ ps_calls > 0
  /\ ps_parser.state = "ParsingContent"
  /\ ps_parser.acc # <<>>
  /\ LastContent # <<>>

IsPrefix(a, b) == Len(a) <= Len(b) /\ SubSeq(b, 1, Len(a)) = a

\* the frames written and not yet returned
FramesLeft == DropFirst(fr_frames, Len(fr_returned))

\* the store holds the beginning of a frame and not all of it
PartialFrame(store) ==
  /\ store # <<>>
  /\ \E f \in FrameChoices : IsPrefix(store, EncFrame(f)) /\ store # EncFrame(f)

\* C8: whatever the segmentation into reads, the calls return the written
\* frames, each once and in order; the store and the unread bytes together are
\* always exactly the encoding of the frames not yet returned (a decoded frame
\* takes only its own bytes), a partial frame never fails the call with Decode,
\* and when the peer closes after writing them all, all have been returned.
C8_ResumableDecoding ==
  /\ IsPrefix(fr_returned, fr_frames)
  /\ IsPrefix(fr_store \o fr_wire, EncFrames(FramesLeft) \o fr_garbage)
  /\ (~fr_truncated => fr_store \o fr_wire = EncFrames(FramesLeft) \o fr_garbage)
  /\ (fr_result = "Decode" => fr_returned = fr_frames /\ ~PartialFrame(fr_store))
  /\ (fr_result = "Disconnect" /\ ~fr_truncated /\ fr_garbage = <<>>
        => fr_returned = fr_frames)

\* C8 witness: a call returned the first of two frames and left bytes of the
\* second in the store.
C8_Witness ==
  /\ Len(fr_frames) = 2
  /\ Len(fr_returned) = 1
  /\ fr_pc = "idle"
  /\ fr_store # <<>>

\* C9 (as stated): once a per-read timeout has elapsed in a call with no
\* complete frame available, the call has returned Timeout.
C9_EitherTimeoutEndsCall ==
  fr_expiries > 0 => fr_pc = "done" /\ fr_result = "Timeout"

\* C9 (amended): a call returns Timeout only when more than the total timeout
\* has elapsed since it began and the store holds no complete frame; it never
\* goes back to reading with the total timeout exceeded; an elapsed per-read
\* timeout alone makes it retry the read.
C9_TimeoutOnlyOnTotal ==
  /\ fr_result = "Timeout" =>
       /\ fr_pc = "done"
       /\ Timeouts(fr_caller).total.some
       /\ fr_elapsed > Timeouts(fr_caller).total.ms
       /\ (fr_store = <<>> \/ take_from_bytes(fr_store).kind = "need")
  /\ fr_pc = "reading" /\ Timeouts(fr_caller).total.some =>
       fr_elapsed <= Timeouts(fr_caller).total.ms
  /\ fr_expiries > 0 /\ fr_elapsed <= Timeouts(fr_caller).total.ms =>
       fr_result # "Timeout"

\* C9 witness: a call ended with Timeout.
C9_Witness == fr_result = "Timeout" /\ fr_expiries > 0

\* C10: in the Hub's accept loop every read outcome that is not a Request ends the
\* session: Disconnect ends it cleanly (Ok), and it is the only outcome that does;
\* Timeout, Io, Decode, a frame that is no Request (or a failed turn) end it with
\* an error.  Disconnect is what the read yields once the client has closed and
\* all its bytes are read, and a store holding a partial frame never yields Decode.
C10_EndOfSession ==
  fr_caller = "hub" =>
    /\ fr_result \in {"Disconnect", "Timeout", "Io", "Decode"} => fr_pc = "done"
    /\ fr_returned # <<>> /\ fr_returned[Len(fr_returned)].tag # "Request" =>
         fr_pc = "done" /\ fr_session = "err"
    /\ fr_pc = "done" =>
         /\ fr_session \in {"ok", "err"}
         /\ fr_session = "ok" <=> fr_result = "Disconnect"
         /\ fr_result = "Decode" => ~PartialFrame(fr_store)
         /\ fr_result = "Disconnect" => fr_wire = <<>> /\ ~fr_open

\* C10 witness: the client closed while the store held a partial frame and the
\* Hub ended the session cleanly.
C10_Witness ==
  /\ fr_caller = "hub"
  /\ fr_pc = "done"
  /\ fr_session = "ok"
  /\ PartialFrame(fr_store)

\* C1: when the flush at the end of a subturn yields no tool call and no parse
\* error, run_turn returns the final answer collected in that subturn and writes
\* no Request, and it returns only then; once it has returned it writes nothing;
\* and a Request is written only as the first of an attempt or after a flush
\* that yielded a tool call or a parse error.
C1_TurnTermination ==
  [][/\ pc = "stream" /\ pc' \in {"done", "send", "tools"} /\ flush' = "clean" =>
          pc' = "done" /\ result' = sub.final_answer /\ c2h' = c2h
     /\ pc = "stream" /\ pc' = "done" => flush' = "clean"
     /\ pc = "done" => pc' = "done" /\ c2h' = c2h /\ last_request' = last_request
     /\ pc = "send" /\ pc' = "stream" => flush \in {"none", "calls", "parse_error"}]_vars

\* C1 witness: the turn returned after a second subturn that followed a tool call
\* or a parse error.
C1_Witness ==
  /\ pc = "done"
  /\ flush = "clean"
  /\ hub_reads >= 2
  /\ Len(messages) > Len(history0)

\* C2: the history only grows at its end; every Request carries the whole history
\* of the moment it is written (nothing is pushed while its answer streams in),
\* which extends the list of the Request before it, and so of every earlier one,
\* also across reconnects.
C2_ReconnectPreservesHistory ==
  /\ [](/\ IsPrefix(history0, messages)
        /\ IsPrefix(last_request, messages)
        /\ pc = "stream" => last_request = messages
        /\ \A i \in 1..Len(c2h) : c2h[i] = Request(last_request))
  /\ [][/\ IsPrefix(messages, messages')
        /\ IsPrefix(last_request, last_request')
        /\ pc = "send" /\ pc' = "stream" => last_request' = messages]_vars

\* C2 witness: after a reconnect the first Request of the new attempt carries a
\* history extended by an earlier subturn.
C2_Witness ==
  /\ attempt > 0
  /\ flush = "none"
  /\ c2h = <<Request(messages)>>
  /\ Len(messages) > Len(history0)

\* C3: the attempt counter never exceeds 6 and equals the number of reconnects;
\* the i-th sleep (i from 0) lasts 2^min(i,6) ms and precedes the i-th reconnect;
\* a disconnect is returned as the turn's error only when 6 reconnects were made.
C3_ReconnectPolicy ==
  /\ attempt \in 0..max_attempts
  /\ Len(sleeps) \in {attempt, attempt + 1}
  /\ Len(sleeps) = attempt + 1 => pc = "error" /\ err = ConnectErr
  /\ \A i \in 1..Len(sleeps) : sleeps[i] = 2 ^ SetMin({i - 1, 6})
  /\ pc = "error" /\ is_disconnect(err) => attempt = max_attempts

\* C3 witness: after six reconnects the next disconnect was returned.
C3_Witness ==
  /\ pc = "error"
  /\ is_disconnect(err)
  /\ attempt = max_attempts
  /\ Len(sleeps) = max_attempts

\* a failure of a disconnect kind, as the claim lists them: the peer closed the
\* stream, or an I/O error of one of the four kinds, reading or writing
DisconnectKind(e) ==
  \/ e.type = "ProtocolError" /\ e.variant = "Disconnect"
  \/ e.type \in {"ProtocolError", "io::Error"} /\ e.kind \in DisconnectIoKinds

\* C4 (as stated): run_turn reconnects only after a failure of a disconnect kind,
\* and while attempts remain it never returns a failure of a disconnect kind.
C4_RetryIffDisconnectKind ==
  /\ attempt > 0 /\ pc \in {"send", "stream", "tools", "done"} => DisconnectKind(err)
  /\ pc = "error" /\ err # ConnectErr /\ attempt < max_attempts => ~DisconnectKind(err)

\* the Answer frames of a list of pieces
AnswersOf(ps) == [i \in 1..Len(ps) |-> Answer(ps[i])]

\* C5: on one connection the Hub reads a Request only when every earlier one was
\* closed by its Stop; while it serves a Request the frames written are the
\* Answers of the pieces produced so far, in order, the channel holding those not
\* yet written, and no Stop; when it reads again the frames written for the
\* Request are the Answers of all its pieces in order (then, if generation left
\* an incomplete character, one Answer with U+FFFD) and one Stop, last.
C5_HubTurnProtocol ==
  /\ hub_stops <= hub_reads
  /\ hub_reads <= hub_stops + 1
  /\ hub_pc = "serving" =>
       /\ hub_reads = hub_stops + 1
       /\ AnswersOf(hub_produced) = hub_written \o AnswersOf(piece_rx)
  /\ hub_pc = "reading" =>
       /\ hub_reads = hub_stops
       /\ piece_rx = <<>>
       /\ hub_reads > 0 =>
            hub_written \in {AnswersOf(hub_produced) \o <<Stop>>,
                             AnswersOf(hub_produced) \o <<Answer(ReplacementChar), Stop>>}
  /\ hub_pc \in {"reading", "serving"} => EndsWith(hub_written, h2c)

\* C5 witness: a second Request on the same connection was answered with two
\* Answers and a Stop.
C5_Witness ==
  /\ hub_reads = 2
  /\ hub_stops = 2
  /\ hub_pc = "reading"
  /\ Len(hub_written) = 3

(***************************************************************************)
(* C11: the approval gate.                                                 *)
(***************************************************************************)
\* the two tools the user is asked about
Gated(name) == name \in {<<"r","u","n","_","c","o","m","m","a","n","d">>,
                         <<"a","p","p","l","y","_","p","a","t","c","h">>}

\* the user was asked about call i and said yes
SaidYes(i) == \E k \in 1..Len(tl_prompts) : tl_prompts[k] = [call |-> i, answer |-> TRUE]

\* the user was asked about call i
Asked(i) == \E k \in 1..Len(tl_prompts) : tl_prompts[k].call = i

\* the calls the loop is through with
Handled == 1..(tl_next - 1)

\* C11: a call of run_command or apply_patch is invoked only after the user was
\* asked about that very call and approved it; a call the gate denied is not
\* invoked, its Tool message carries {"error":"user denied"} and the loop goes on
\* to the next call; calls of other tools are invoked unasked; where the user
\* cannot be prompted no gated call is invoked and nobody is asked.
C11_ApprovalGate ==
  /\ \A k \in 1..Len(tl_invoked) :
       /\ tl_invoked[k] \in Handled
       /\ Gated(tl_calls[tl_invoked[k]].name) => SaidYes(tl_invoked[k])
  /\ Len(tl_messages) = 1 + Cardinality(Handled)
  /\ \A i \in Handled :
       LET c == tl_calls[i]
           m == tl_messages[1 + i]
           invoked == \E k \in 1..Len(tl_invoked) : tl_invoked[k] = i
       IN /\ m.role = "Tool"
          /\ Gated(c.name) /\ ~SaidYes(i) =>
               ~invoked /\ m.text = DeniedPayload(c.name, c.arguments)
          /\ Gated(c.name) /\ SaidYes(i) => invoked
          /\ ~Gated(c.name) => invoked /\ ~Asked(i)
          /\ invoked => \E r \in InvokeResults(c.name) :
                          m.text = ResultPayload(c.name, c.arguments, r)
  /\ tl_pc = "done" <=> tl_next = Len(tl_calls) + 1
  /\ ~tl_can_prompt_user =>
       tl_prompts = <<>> /\ \A k \in 1..Len(tl_invoked) : ~Gated(tl_calls[tl_invoked[k]].name)

\* a denied run_command is followed by an approved apply_patch, both handled
C11_Witness ==
  /\ tl_pc = "done"
  /\ Len(tl_calls) = 2
  /\ tl_calls[1].name = RunCommand
  /\ tl_calls[2].name = ApplyPatch
  /\ tl_prompts = <<[call |-> 1, answer |-> FALSE], [call |-> 2, answer |-> TRUE]>>
  /\ tl_invoked = <<2>>

(***************************************************************************)
(* C12: a tool call whose JSON does not parse.                             *)
(***************************************************************************)
\* C12: when Stop arrives and the router holds a tool name, the accumulated text
\* is parsed: if it is JSON, exactly one call comes out and the tools are run; if
\* not, no tool is run in this subturn, the Tool message
\* {tool: "tool_call_parse_error", result: {error}} joins the history as the only
\* Tool message of the subturn, and the engine neither returns nor fails but
\* starts the next subturn, whose first step is to write another Request.
C12_ParseFailureSurfaced ==
  [][/\ pc = "stream" /\ pc' \in {"done", "send", "tools"} /\ sub.handler.name.some =>
          IF Trim(sub.handler.acc) \in JsonDocuments
            THEN /\ pc' = "tools"
                 /\ Len(calls') = 1
                 /\ calls'[1].name = strip_functions_prefix(sub.handler.name.name)
                 /\ \A i \in (Len(messages) + 1)..Len(messages') : messages'[i].role # "Tool"
            ELSE /\ pc' = "send"
                 /\ calls' = <<>>
                 /\ flush' = "parse_error"
                 /\ Len(messages') > Len(messages)
                 /\ messages'[Len(messages) + 1] =
                      Msg("Tool", ParseErrorPayload(ParseErrorText(sub.handler.acc)))
                 /\ \A i \in (Len(messages) + 2)..Len(messages') : messages'[i].role # "Tool"
     /\ pc = "send" /\ flush = "parse_error" /\ pc' # "send" =>
          /\ pc' \in {"stream", "failed"}
          /\ pc' = "stream" => last_request' = messages /\ messages' = messages
          /\ pc' = "stream" /\ hubOpen => c2h' = Append(c2h, Request(messages))]_vars

\* after a parse failure the next Request, carrying the error message, is under way
C12_Witness ==
  /\ pc = "stream"
  /\ flush = "parse_error"
  /\ c2h # <<>>
  /\ \E i \in 1..Len(last_request) :
       /\ last_request[i].role = "Tool"
       /\ last_request[i].text = ParseErrorPayload(ParseErrorText(<<"{">>))

(***************************************************************************)
(* C13: where the router sends a message.                                  *)
(***************************************************************************)
\* the latest delta completed a header, and nothing of the message came after it
HeaderJustRead(h) ==
  rt_last.events \in {<<HeaderComplete(h)>>, <<MessageStart, HeaderComplete(h)>>}

\* the headers the stream held so far
HeadersSeen ==
  {rt_events[i].header : i \in {j \in 1..Len(rt_events) : rt_events[j].type = "HeaderComplete"}}

\* C13: after a HeaderComplete with a recipient the router is in ToolCalling with
\* the recipient as tool name, whatever the channel; without a recipient, channel
\* analysis gives Thinking, commentary and final give Answering, any other channel
\* leaves the state as it was; and the body of a lone message with a recipient
\* reaches neither the answer nor the reasoning but the arguments of the call.
C13_RecipientRoutesToTool ==
  /\ \A h \in HeadersSeen :
       HeaderJustRead(h) =>
         IF h.recipient # <<>>
           THEN /\ rt_sub.handler.state = "ToolCalling"
                /\ rt_sub.handler.name = SomeName(h.recipient)
         ELSE IF h.channel = Analysis THEN rt_sub.handler.state = "Thinking"
         ELSE IF h.channel \in {Commentary, Final} THEN rt_sub.handler.state = "Answering"
         ELSE rt_sub.handler.state = rt_last.before
  /\ \A h \in HeadersSeen :
       /\ h.recipient # <<>>
       /\ rt_flush.done
       /\ rt_fed = 3
       /\ rt_script[3] = EndTag
       => /\ rt_sub.answer = <<>>
          /\ rt_sub.reasoning = <<>>
          /\ rt_flush.ok => /\ Len(rt_flush.calls) = 1
                            /\ rt_flush.calls[1].arguments = rt_script[2]

(***************************************************************************)
(* C14: the terminator of a tool call.                                     *)
(***************************************************************************)
\* the last n events
LastEvents(n) == SubSeq(rt_events, Len(rt_events) - n + 1, Len(rt_events))

\* C14: once a body and the <|call|> after it are read, MessageEnd has been
\* emitted for that message and the parser looks for the next start; no
\* ContentEmitted ever holds <|call|>; and a following <|start|>... segment comes
\* out as a message of its own: MessageStart, HeaderComplete, content, MessageEnd.
C14_CallEndsMessage ==
  /\ \A i \in 1..Len(rt_events) :
       rt_events[i].type = "ContentEmitted" => Find(rt_events[i].content, CallTag) = 0
  /\ Len(rt_script) >= 3 /\ rt_script[3] = CallTag /\ rt_fed = 3 =>
       /\ rt_events # <<>>
       /\ LastEvents(1) = <<MessageEnd>>
       /\ rt_sub.parser.state = "LookingForMessageStart"
  /\ Len(rt_script) = 4 /\ rt_script[3] = CallTag /\ rt_fed = 4 =>
       /\ Len(rt_events) >= 4
       /\ LastEvents(4) =
            <<MessageStart,
              HeaderComplete([role |-> <<"a","s","s","i","s","t","a","n","t">>,
                              channel |-> Final, recipient |-> <<>>]),
              ContentEmitted(<<"b">>), MessageEnd>>

(***************************************************************************)
(* C15: rendering and parsing back.                                        *)
(***************************************************************************)
\* one rendered segment
Segment(role, channel, body) == [role |-> role, channel |-> channel, body |-> body]

\* the segments a message is rendered as (spec 4.3)
SegmentsOf(msg) ==
  CASE msg.role = "System" -> <<Segment(<<"s","y","s","t","e","m">>, <<>>, msg.text)>>
    [] msg.role = "Developer" ->
         <<Segment(<<"d","e","v","e","l","o","p","e","r">>, <<>>, msg.text)>>
    [] msg.role = "User" -> <<Segment(<<"u","s","e","r">>, <<>>, msg.text)>>
    [] msg.role = "Assistant" -> <<Segment(AssistantRole, Final, msg.text)>>
    [] msg.role = "Reasoning" -> <<Segment(AssistantRole, Analysis, msg.text)>>
    [] OTHER ->
         IF \E v \in ToolValues : v.text = msg.text
           THEN LET val == CHOOSE v \in ToolValues : v.text = msg.text
                    res == Segment(FunctionsPrefix \o val.tool, Commentary,
                                   IF ~val.result.some THEN msg.text
                                   ELSE IF val.result.is_str THEN val.result.str
                                   ELSE val.result.json)
                IN (IF val.arguments.some
                      THEN <<Segment(AssistantRole, Commentary, val.arguments.json)>>
                      ELSE <<>>)
                   \o (IF val.result.some \/ ~val.arguments.some THEN <<res>> ELSE <<>>)
           ELSE <<Segment(AssistantRole, Commentary, msg.text)>>

RECURSIVE Segments(_)
\* the segments of a history, in order
Segments(h) == IF h = <<>> THEN <<>> ELSE SegmentsOf(Head(h)) \o Segments(Tail(h))

\* the events come in groups MessageStart, HeaderComplete, ContentEmitted, MessageEnd
WellShaped(evs) ==
  /\ Len(evs) % 4 = 0
  /\ \A i \in 1..Len(evs) :
       evs[i].type = <<"MessageStart", "HeaderComplete", "ContentEmitted", "MessageEnd">>
                       [((i - 1) % 4) + 1]

\* role, channel and body of the messages of well-shaped events
ParsedMessages(evs) ==
  [i \in 1..(Len(evs) \div 4) |->
     Segment(evs[4 * i - 2].header.role, evs[4 * i - 2].header.channel, evs[4 * i - 1].content)]

\* C15: parsing the rendered history with a fresh parser gives one message
\* (MessageStart, HeaderComplete, content, MessageEnd) per rendered segment, in
\* order, with the segment's role, channel and body; the call and the result of
\* a Tool message are two messages.
C15_RenderParseRoundTrip ==
  rd_pc = "parsed" =>
    /\ WellShaped(rd_events)
    /\ ParsedMessages(rd_events) = Segments(rd_history)

\* the round trip of the histories that render no call segment
RoundTripWithoutCalls ==
  /\ rd_pc = "parsed"
  /\ \A i \in 1..Len(rd_history) :
       \A v \in ToolValues : v.text = rd_history[i].text => ~v.arguments.some
  => /\ WellShaped(rd_events)
     /\ ParsedMessages(rd_events) = Segments(rd_history)

(***************************************************************************)
(* C16: the name map is a bijection.                                       *)
(***************************************************************************)
\* python and the three browser tools
PassThrough(x) ==
  x \in {<<"p","y","t","h","o","n">>, <<"b","r","o","w","s","e","r",".","o","p","e","n">>,
         <<"b","r","o","w","s","e","r",".","s","e","a","r","c","h">>,
         <<"b","r","o","w","s","e","r",".","f","i","n","d">>}

\* C16: after any calls of convert_and_add, every returned name h still maps back
\* to the x it was returned for; calls with distinct inputs returned distinct
\* names; a returned name is the sanitised input or that with a suffix _2, _3, ...;
\* the built-in names come back unchanged.
C16_NameMapBijection ==
  \A i \in 1..Len(nm_calls) :
    /\ original_from_converted(nm_map, nm_calls[i].h) = nm_calls[i].x
    /\ \A j \in 1..Len(nm_calls) :
         nm_calls[i].x # nm_calls[j].x => nm_calls[i].h # nm_calls[j].h
    /\ IF PassThrough(nm_calls[i].x) THEN nm_calls[i].h = nm_calls[i].x
       ELSE \/ nm_calls[i].h = convert_to_valid_chars(nm_calls[i].x)
            \/ \E k \in 2..(Len(nm_calls) + 1) :
                 nm_calls[i].h = convert_to_valid_chars(nm_calls[i].x) \o <<"_">> \o Digits(k)

\* the same, for maps the name python is not added to after a name that
\* sanitises to python
BijectionWithoutPython ==
  (\A i, j \in 1..Len(nm_calls) :
     i < j /\ nm_calls[j].x = <<"p","y","t","h","o","n">> =>
       nm_calls[i].h # <<"p","y","t","h","o","n">> \/ nm_calls[i].x = nm_calls[j].x)
  => C16_NameMapBijection

(***************************************************************************)
(* C17, C18, C19: the token window.                                        *)
(***************************************************************************)
\* C17: whatever was rebuilt and appended, the first min(preamble_len, len)
\* tokens of the rolling buffer are the first tokens of the clipped prompt.
C17_PreamblePinned ==
  LET n == SetMin({kv_preamble_len, Len(kv_rolling_tokens)})
  IN /\ n <= Len(kv_prompt_tokens)
     /\ SubSeq(kv_rolling_tokens, 1, n) = SubSeq(kv_prompt_tokens, 1, n)

\* a preamble of two tokens has come through two rebuilds, with generated
\* tokens behind it
C17_Witness ==
  /\ kv_compactions >= 2
  /\ kv_preamble_len >= 2
  /\ Len(kv_rolling_tokens) > kv_preamble_len
  /\ kv_rolling_tokens[Len(kv_rolling_tokens)] = Generated

\* C18: pos is the length of the rolling buffer and never exceeds ctx_cap; after
\* the check at the loop top, where a token is sampled and decoded at pos, it is
\* below ctx_cap; no token was decoded at a position of ctx_cap or more.
C18_ContextBound ==
  /\ kv_pos = Len(kv_rolling_tokens)
  /\ kv_pos <= kv_ctx_cap
  /\ kv_pc = "sample" => kv_pos < kv_ctx_cap
  /\ kv_max_pos < kv_ctx_cap

\* a prompt longer than the context was clipped, and the loop is about to sample
\* right after a rebuild
C18_Witness ==
  /\ kv_pc = "sample"
  /\ kv_compacted
  /\ Len(kv_prompt_tokens) = kv_ctx_cap - 1
  /\ Len(kv_prompt_tokens) > 0
  /\ kv_prompt_tokens[Len(kv_prompt_tokens)] = kv_ctx_cap + 2
  /\ kv_pos < kv_ctx_cap

\* C19: the step that follows a rebuild does not bring pos to ctx_cap: back at the
\* loop top after it, no rebuild is due again.
C19_NoRebuildRightAfterRebuild ==
  kv_pc = "check" /\ kv_compacted => kv_pos < kv_ctx_cap

\* the same for a preamble that leaves room for a tail
SlackWithRoom ==
  kv_pc = "check" /\ kv_compacted /\ kv_preamble_len < kv_ctx_cap - 1 => kv_pos < kv_ctx_cap

(***************************************************************************)
(* C20: the detokenizer emits valid UTF-8 only.                            *)
(***************************************************************************)
\* the bytes of the tokens received so far
ReceivedBytes == Flatten(SubSeq(dk_tokens, 1, dk_received))

\* the longest prefix of b that is valid UTF-8
LongestValidPrefix(b) ==
  SubSeq(b, 1, SetMax({n \in 0..Len(b) : Utf8Valid(SubSeq(b, 1, n))}))

\* C20: every piece sent on is non-empty valid UTF-8; the pieces together are the
\* longest valid UTF-8 prefix of the bytes of the tokens received, the rest is
\* pending; at the end the Hub has written the pieces as Answers, then exactly
\* one Answer holding U+FFFD if bytes were left pending and none otherwise, then
\* Stop.
C20_DetokenizerUtf8 ==
  /\ \A i \in 1..Len(dk_pieces) : dk_pieces[i] # <<>> /\ Utf8Valid(dk_pieces[i])
  /\ Flatten(dk_pieces) = LongestValidPrefix(ReceivedBytes)
  /\ Flatten(dk_pieces) \o dk_pending = ReceivedBytes
  /\ dk_pc = "done" =>
       LET n == Len(dk_pieces)
           left == Len(LongestValidPrefix(ReceivedBytes)) < Len(ReceivedBytes)
       IN /\ Len(dk_written) = n + (IF left THEN 2 ELSE 1)
          /\ \A i \in 1..n : dk_written[i] = Answer(dk_pieces[i])
          /\ left => dk_written[n + 1] = Answer(<<"U+FFFD">>)
          /\ dk_written[Len(dk_written)] = Stop

\* the euro sign came in two tokens and went out whole; the lead byte that came
\* with its last byte stayed pending and was replaced at the end
C20_Witness ==
  /\ dk_pc = "done"
  /\ dk_tokens = <<<<226, 130>>, <<172, 195>>>>
  /\ dk_pieces = <<<<226, 130, 172>>>>
  /\ dk_pending = <<195>>
  /\ Len(dk_written) = 3

(***************************************************************************)
(* C21: cancellation when the consumer drops.                              *)
(***************************************************************************)
\* C21: once the frame consumer is gone (the Hub's write failed and the piece
\* receiver was dropped), the generation thread completes no further token send
\* and decodes no token sent after the drop.
C21_StopsAtNextSend ==
  cn_hub = "failed" => cn_after.sends = 0 /\ cn_after.decodes = 0

\* what the code does give: once the token receiver is gone too, no send completes
StopsOnceTokenReceiverGone ==
  [][~cn_token_rx => cn_token_q' = cn_token_q \/ Len(cn_token_q') < Len(cn_token_q)]_vars

(***************************************************************************)
(* C22, C23: the workspace sandbox.                                        *)
(***************************************************************************)
RECURSIVE RealLocation(_, _, _)
\* where a path really is: symbolic links among its existing ancestors are
\* followed, what does not exist is kept as written
RealLocation(cur, rest, fuel) ==
  IF rest = <<>> THEN cur
  ELSE IF Head(rest) = "." THEN RealLocation(cur, Tail(rest), fuel)
  ELSE LET n == Append(cur, Head(rest))
       IN IF n \in DOMAIN LinkTargets /\ fuel > 0
            THEN RealLocation(<<>>, LinkTargets[n] \o Tail(rest), fuel - 1)
          ELSE IF n \in Dirs \cup Files THEN RealLocation(n, Tail(rest), fuel)
          ELSE cur \o rest

\* a relative path of plain names, or "."
IsRelativeResult(q) ==
  q = <<".">> \/ (q # <<>> /\ \A i \in 1..Len(q) : q[i] \notin {".", "..", ""})

\* C22: a path the sandbox returns is relative, and its real location under the
\* working directory, after following the symbolic links among its existing
\* ancestors, lies under the working directory.
C22_SandboxContainment ==
  (sb_pc = "returned" /\ sb_result.ok) =>
    /\ IsRelativeResult(sb_result.path)
    /\ StartsWith(RealLocation(<<>>, sb_root \o sb_result.path, MaxLinks), sb_root)

\* a link inside the workspace was followed to a place inside it
C22_Witness ==
  /\ sb_pc = "returned"
  /\ sb_root = <<"w">>
  /\ ~sb_absolute
  /\ sb_components = <<"in", "f">>
  /\ sb_result = PathOk(<<"a", "f">>)

\* a ".." is met while nothing is left to pop
Underflows(components) ==
  \E k \in 1..Len(components) :
    /\ components[k] = ".."
    /\ Cardinality({i \in 1..(k - 1) : components[i] = ".."})
         = Cardinality({i \in 1..(k - 1) : components[i] \notin {".", ".."}})
    /\ \A j \in 1..(k - 1) :
         Cardinality({i \in 1..j : components[i] = ".."})
           <= Cardinality({i \in 1..j : components[i] \notin {".", ".."}})

\* C23: a relative input in which a ".." is met while no component is left to
\* pop is refused with PermissionDenied and never resolved to a path.
C23_ParentDirRefused ==
  (sb_pc = "returned" /\ ~sb_absolute /\ Underflows(sb_components)) =>
    sb_result = PathErr("PermissionDenied")

\* a/../../etc is refused
C23_Witness ==
  /\ sb_pc = "returned"
  /\ ~sb_absolute
  /\ sb_components = <<"a", "..", "..">>
  /\ sb_result = PathErr("PermissionDenied")

(***************************************************************************)
(* C25: hunk application with relaxed matching.                            *)
(***************************************************************************)
\* the starts (0-based) of the windows of lines that equal old, trailing
\* whitespace aside
RelaxedWindows(lines, old) ==
  {s \in 0..(Len(lines) - Len(old)) :
     \A k \in 1..Len(old) : trim_end(lines[s + k]) = trim_end(old[k])}

EndsWithNewline(s) == s # <<>> /\ s[Len(s)] = Newline

\* the claim for one text, hunk and result
HunkApplied(before, h, r) ==
  LET lines   == split_lines(before)
      windows == RelaxedWindows(lines, h.old_lines)
      old_seg == join_lines(h.old_lines)
      at      == Find(before, old_seg)
  IN IF windows # {}
       THEN LET s      == SetMin(windows)
                spliced == join_lines(SubSeq(lines, 1, s) \o h.new_lines
                                      \o DropFirst(lines, s + Len(h.old_lines)))
            IN /\ r.ok
               /\ r.text \in {spliced, Append(spliced, Newline)}
               /\ EndsWithNewline(before) => EndsWithNewline(r.text)
               /\ r.text = Append(spliced, Newline) =>
                    EndsWithNewline(before) /\ ~EndsWithNewline(spliced)
     ELSE IF at # 0
       THEN /\ r.ok
            /\ r.text = SubSeq(before, 1, at - 1) \o join_lines(h.new_lines)
                         \o DropFirst(before, at - 1 + Len(old_seg))
     ELSE ~r.ok /\ ~r.panicked /\ r.error = "hunk old text not found"

\* C25: with old lines, apply_hunk replaces the first window of lines that equal
\* them, trailing whitespace aside, keeps the other lines and the newline at the
\* end; without such a window it replaces the first occurrence of the joined old
\* segment; without that it returns the error "hunk old text not found".
C25_HunkApplication ==
  (hk_pc = "returned" /\ hk_hunk.old_lines # <<>>) =>
    HunkApplied(hk_before, hk_hunk, hk_result)

\* the same, for old segments the error message shows whole
HunkAppliedShortSegment ==
  (hk_pc = "returned" /\ hk_hunk.old_lines # <<>>
     /\ byte_len(join_lines(hk_hunk.old_lines)) <= PreviewLimit) =>
    HunkApplied(hk_before, hk_hunk, hk_result)

(***************************************************************************)
(* C24: a failing op does not disturb the other ops.                       *)
(***************************************************************************)
RECURSIVE MissedHunks(_, _, _)
\* the hunks (0-based) that do not apply when the hunks are applied in order,
\* each to the text the earlier ones left
MissedHunks(text, hunks, idx) ==
  IF idx = Len(hunks) THEN {}
  ELSE IF apply_hunk(text, hunks[idx + 1]).ok
    THEN MissedHunks(apply_hunk(text, hunks[idx + 1]).text, hunks, idx + 1)
  ELSE {idx} \cup MissedHunks(text, hunks, idx + 1)

\* the files before op i (1-based) was executed
FilesBefore(i) == IF i = 1 THEN px_after[1] ELSE px_after[i - 1]

\* the op cannot succeed: its path is refused by the sandbox or is a directory
PathFails(op) ==
  LET rel == resolve_path_within_cwd(Workspace, FALSE, op.path)
  IN ~rel.ok \/ IsDirectory(rel.path)

\* the patch ops and their results, one for one
ResultsInOrder ==
  /\ Len(px_results) = px_next
  /\ Len(px_after) = px_next
  /\ \A i \in 1..px_next :
       /\ px_results[i].path = px_call.ops[i].path
       /\ px_results[i].op = px_call.ops[i].op
       /\ PathFails(px_call.ops[i]) => ~px_results[i].ok
       /\ ~px_results[i].ok => (i > 1 => px_after[i] = px_after[i - 1])
       /\ \A f \in PatchFiles :
            (i > 1 /\ px_after[i][f] # px_after[i - 1][f]) =>
              /\ px_results[i].ok
              /\ resolve_path_within_cwd(Workspace, FALSE, px_call.ops[i].path).path = f

\* the hunks an update's result lists are those that missed
MissesListed ==
  \A i \in 2..px_next :
    LET op   == px_call.ops[i]
        read == read_to_string(px_after[i - 1], op.path)
    IN (op.op = "update" /\ (read.ok \/ read.kind = "NotFound")
          /\ MissedHunks(read.text, op.hunks, 0) # {}) =>
         /\ ~px_results[i].ok
         /\ {px_results[i].errors[k].hunk : k \in 1..Len(px_results[i].errors)}
              = MissedHunks(read.text, op.hunks, 0)

\* C24: in patch mode every op is executed, in order, and contributes exactly
\* one result; a failing op gets ok = false, with its missed hunks listed, and
\* neither stops the call nor undoes what earlier ops did; the call returns
\* {ok: true, mode: "patch", results}.
C24_PatchErrorIsolation ==
  px_call.markers =>
    /\ px_pc # "panicked"
    /\ ResultsInOrder
    /\ MissesListed
    /\ px_pc = "returned" =>
         /\ px_next = Len(px_call.ops)
         /\ px_value = [ok |-> TRUE, mode |-> "patch", results |-> px_results]
         /\ px_next > 0 => px_files = px_after[px_next]

\* no op has a hunk whose old segment is longer than the error message shows
ShortSegments ==
  \A i \in 1..Len(px_call.ops) : \A k \in 1..Len(px_call.ops[i].hunks) :
    byte_len(join_lines(px_call.ops[i].hunks[k].old_lines)) <= PreviewLimit

\* the same, for patches of short segments
PatchErrorIsolationShortSegments ==
  (px_call.markers /\ ShortSegments) =>
    /\ px_pc # "panicked"
    /\ ResultsInOrder
    /\ MissesListed
    /\ px_pc = "returned" =>
         /\ px_next = Len(px_call.ops)
         /\ px_value = [ok |-> TRUE, mode |-> "patch", results |-> px_results]
         /\ px_next > 0 => px_files = px_after[px_next]

(***************************************************************************)
(* C26: the newline at the end of a written file.                          *)
(***************************************************************************)
\* the content ends as no_newline asks: without a newline, or with exactly one
EndsAsAsked(content, no_newline) ==
  IF no_newline THEN ~EndsWithNewline(content)
  ELSE /\ EndsWithNewline(content)
       /\ ~EndsWithNewline(SubSeq(content, 1, Len(content) - 1))

\* C26 as stated: in both modes a written file ends as no_newline asks, with
\* exactly one newline unless no_newline is set.
C26_TrailingNewlineBothModes ==
  \A i \in 1..Len(px_wrote) : EndsAsAsked(px_wrote[i].content, px_wrote[i].no_newline)

\* C26 amended: a file written by an Add or Update op of a patch ends as the
\* op's no_newline asks; overwrite mode writes the content as it was given.
C26_TrailingNewlinePatchMode ==
  /\ \A i \in 1..Len(px_wrote) :
       px_wrote[i].mode = "patch" =>
         EndsAsAsked(px_wrote[i].content, px_wrote[i].no_newline)
  /\ (px_pc = "returned" /\ ~px_call.markers) =>
       \A i \in 1..Len(px_wrote) : px_wrote[i].content = px_call.content

\* a patch added a file given with two newlines at its end, then appended a
\* line to it under no_newline
C26_Witness ==
  /\ px_pc = "returned"
  /\ px_call.markers
  /\ Len(px_wrote) = 2
  /\ px_wrote[1].content = <<"b", Newline>>
  /\ ~px_wrote[1].no_newline
  /\ px_wrote[2].content = <<"b", Newline, "b">>
  /\ px_wrote[2].no_newline

(***************************************************************************)
(* C27: how a Tool message is rendered.                                    *)
(***************************************************************************)
\* <|start|>assistant<|channel|>commentary to=functions.TOOL <|constrain|>json
\* <|message|>ARGS<|call|>
CallSegment(tool, args) ==
  StartTag \o AssistantRole \o ChannelTag \o Commentary \o <<" ">> \o ToPrefix
  \o FunctionsPrefix \o tool \o <<" ">> \o ConstrainTag \o <<"j","s","o","n">>
  \o HeaderEndTag \o args \o CallTag

\* <|start|>functions.TOOL to=assistant<|channel|>commentary<|message|>PAYLOAD<|end|>
ResultSegment(tool, payload) ==
  StartTag \o FunctionsPrefix \o tool \o <<" ">> \o ToPrefix \o AssistantRole
  \o ChannelTag \o Commentary \o HeaderEndTag \o payload \o EndTag

\* what a message is to be rendered as: a Tool message of valid JSON as the
\* claim says, any other message as it is
RenderedAs(msg) ==
  IF msg.role = "Tool" /\ \E v \in ToolValues : v.text = msg.text
    THEN LET val == CHOOSE v \in ToolValues : v.text = msg.text
         IN IF ~val.arguments.some /\ ~val.result.some
              THEN ResultSegment(val.tool, msg.text)
            ELSE (IF val.arguments.some
                    THEN CallSegment(val.tool, val.arguments.json) ELSE <<>>)
                 \o (IF val.result.some
                       THEN ResultSegment(val.tool, IF val.result.is_str
                                                      THEN val.result.str
                                                      ELSE val.result.json)
                       ELSE <<>>)
  ELSE render_message(msg)

\* the cue of the next assistant turn
AssistantStart == StartTag \o AssistantRole

\* C27: a Tool message of valid JSON is rendered as a call segment if and only
\* if it has arguments and a result segment if and only if it has a result, the
\* call first; with neither, the whole text is the payload of one result
\* segment; the prompt ends with <|start|>assistant if and only if
\* append_assistant_start is true.
C27_ToolMessageRendering ==
  rd_pc \in {"rendered", "cued"} =>
    /\ rd_prompt = Flatten([i \in 1..Len(rd_history) |-> RenderedAs(rd_history[i])])
                    \o (IF rd_pc = "cued" THEN AssistantStart ELSE <<>>)
    /\ EndsWith(rd_prompt, AssistantStart) <=> rd_pc = "cued"

\* a call with its result, then a call alone, rendered with the cue
C27_Witness ==
  /\ rd_pc = "cued"
  /\ Len(rd_history) = 2
  /\ \E v \in ToolValues :
       v.text = rd_history[1].text /\ v.arguments.some /\ v.result.some
  /\ \E v \in ToolValues :
       v.text = rd_history[2].text /\ v.arguments.some /\ ~v.result.some

(***************************************************************************)
(* C28, C29: the history of a session.                                     *)
(***************************************************************************)
\* System and Developer messages make up a prefix of the history
PreambleIsPrefix(h) ==
  \A i \in 1..Len(h) :
    h[i].role \in {"System", "Developer"} =>
      \A j \in 1..i : h[j].role \in {"System", "Developer"}

\* C28: in every history sent in a Request, and in the histories kept by the
\* REPL and by the turn engine, System and Developer messages occur only in a
\* contiguous prefix.
C28_PreambleInvariant ==
  /\ \A i \in 1..Len(rp_requests) : PreambleIsPrefix(rp_requests[i].messages)
  /\ PreambleIsPrefix(rp_history)
  /\ PreambleIsPrefix(rp_messages)

\* the Request of the second subturn of a turn that had stdin content and a
\* redirection in its preamble and has called a tool
C28_Witness ==
  /\ Len(rp_requests) > 0
  /\ LET r == rp_requests[Len(rp_requests)]
     IN /\ r.subturn = 2
        /\ Len(rp_initial) = 5
        /\ \E i \in 1..Len(r.messages) : r.messages[i].role = "Tool"
        /\ \E i \in 1..Len(r.messages) : r.messages[i].role = "Reasoning"

\* C29 as stated: what the turn engine appended during a turn is still part of
\* the history sent in the Requests of the next turn.
C29_TurnMessagesKept ==
  \A i \in 1..Len(rp_requests) :
    rp_requests[i].turn > 1 =>
      StartsWith(rp_requests[i].messages, rp_turns[rp_requests[i].turn - 1].messages)

\* what the REPL keeps of the turns completed: the lines and the final answers
KeptOfTurns(turns) ==
  Flatten([i \in 1..Len(turns) |->
             <<Msg("User", turns[i].line), Msg("Assistant", turns[i].answer)>>])

\* C29 amended: run_turn works on a copy of the history.  Within a turn every
\* Request carries the whole history of the turn so far; across REPL turns only
\* the user lines and the final answers are kept, so the first Request of a turn
\* is the initial history, then the line and the final answer of every earlier
\* turn, then the new line.
C29_AnswersKeptAcrossTurns ==
  \A i \in 1..Len(rp_requests) :
    LET r == rp_requests[i]
    IN /\ r.subturn = 1 =>
            r.messages = rp_initial \o KeptOfTurns(SubSeq(rp_turns, 1, r.turn - 1))
                         \o <<r.messages[Len(r.messages)]>>
       /\ r.subturn = 1 => r.messages[Len(r.messages)].role = "User"
       /\ (i > 1 /\ r.subturn > 1) =>
            /\ rp_requests[i - 1].turn = r.turn
            /\ StartsWith(r.messages, rp_requests[i - 1].messages)
            /\ Len(r.messages) > Len(rp_requests[i - 1].messages)

\* a turn called a tool, and the first Request of the next turn has the answer
\* of that turn but not its Tool message
C29_Witness ==
  /\ Len(rp_requests) > 0
  /\ LET r == rp_requests[Len(rp_requests)]
     IN /\ r.turn = 2
        /\ r.subturn = 1
        /\ \A i \in 1..Len(r.messages) : r.messages[i].role # "Tool"
        /\ \E i \in 1..Len(r.messages) : r.messages[i].role = "Assistant"
  /\ \E i \in 1..Len(rp_turns[1].messages) : rp_turns[1].messages[i].role = "Tool"


(***************************************************************************)
(* C30: the Hub as a singleton.                                            *)
(***************************************************************************)
\* the Hub processes that have loaded the model and have a client
ServingHubs ==
  {h \in HubIds : /\ sg_hubs[h] = "serving"
                  /\ \E p \in ProbeIds : /\ sg_probes[p].pc = "connected"
                                          /\ sg_probes[p].hub = h}

\* the Hubs inside a Probe's process, each with its own model and its Probe
EmbeddedHubs == {p \in ProbeIds : sg_probes[p].pc = "embedded"}

\* C30: at no time are two Hub instances alive that each own a loaded model and
\* serve clients, whether a Hub is started while another one listens or two
\* Probes find no listener at the same time.
C30_HubSingleton == Cardinality(ServingHubs) + Cardinality(EmbeddedHubs) <= 1

\* The part of C30 about the path: before bind an existing socket file is
\* unlinked, and an existing file that is no socket makes startup fail.
CleanupBeforeBind ==
  [][\A h \in HubIds :
       sg_hubs[h] = "started" /\ sg_hubs'[h] # "started" =>
         CASE sg_file = "other" -> sg_hubs'[h] = "failed" /\ sg_file' = sg_file
           [] sg_file = "socket" -> sg_hubs'[h] = "cleaned" /\ sg_file' = "none"
           [] OTHER -> sg_hubs'[h] = "cleaned" /\ sg_file' = "none"]_vars

\* Two Hub processes on the socket path never both serve clients.
OneServingHubProcess == Cardinality(ServingHubs) <= 1

\* No two Probes each run a Hub of their own.
OneEmbeddedHub == Cardinality(EmbeddedHubs) <= 1


(***************************************************************************)
(* C31, C35: the events of the parser as a whole.                          *)
(***************************************************************************)
RECURSIVE GrammarRun(_, _)
\* the parser state an event sequence leads to from st when it is read as a
\* word of (MessageStart HeaderComplete ContentEmitted* MessageEnd)*, or
\* "rejected"
GrammarRun(evs, st) ==
  IF evs = <<>> THEN st
  ELSE LET e == Head(evs).type
           nxt == CASE st = "LookingForMessageStart" /\ e = "MessageStart" -> "ParsingHeader"
                    [] st = "ParsingHeader" /\ e = "HeaderComplete" -> "ParsingContent"
                    [] st = "ParsingContent" /\ e = "ContentEmitted" -> "ParsingContent"
                    [] st = "ParsingContent" /\ e = "MessageEnd" -> "LookingForMessageStart"
                    [] OTHER -> "rejected"
       IN IF nxt = "rejected" THEN nxt ELSE GrammarRun(Tail(evs), nxt)

\* everything given to the parser so far
FedText == (IF ps_implicit THEN ImplicitStart ELSE <<>>) \o SubSeq(ps_S, 1, ps_pos)

RECURSIVE Located(_, _)
\* reads the events off the text from left to right: a MessageStart takes the
\* text up to and with the next start tag, a HeaderComplete the header up to
\* and with the next header end tag, a ContentEmitted its content, a MessageEnd
\* the end tag; gives what is left of the text
Located(evs, text) ==
  IF evs = <<>> THEN [ok |-> TRUE, rest |-> text]
  ELSE LET e == Head(evs)
           tag == IF e.type = "MessageStart" THEN StartTag ELSE HeaderEndTag
           idx == Find(text, tag)
       IN CASE e.type \in {"MessageStart", "HeaderComplete"} ->
                 IF /\ idx > 0
                    /\ e.type = "HeaderComplete" =>
                         e.header = parse_header(SubSeq(text, 1, idx - 1))
                   THEN Located(Tail(evs), DropFirst(text, idx - 1 + Len(tag)))
                   ELSE [ok |-> FALSE, rest |-> text]
            [] e.type = "ContentEmitted" ->
                 IF StartsWith(text, e.content) /\ Find(e.content, EndTag) = 0
                   THEN Located(Tail(evs), DropFirst(text, Len(e.content)))
                   ELSE [ok |-> FALSE, rest |-> text]
            [] OTHER ->
                 IF StartsWith(text, EndTag)
                   THEN Located(Tail(evs), DropFirst(text, Len(EndTag)))
                   ELSE [ok |-> FALSE, rest |-> text]

\* C31: for any input and any chunking the events returned so far are a prefix
\* of a word of (MessageStart HeaderComplete ContentEmitted* MessageEnd)* that
\* leads to the state the parser is in; no ContentEmitted is empty; the events
\* account for the text in order, with the text before a start tag dropped
\* without an event, and what no event accounts for is the buffer kept.
C31_EventGrammar ==
  /\ GrammarRun(ps_events, "LookingForMessageStart") = ps_parser.state
  /\ \A i \in 1..Len(ps_events) :
       ps_events[i].type = "ContentEmitted" => ps_events[i].content # <<>>
  /\ Located(ps_events, FedText).ok
  /\ Located(ps_events, FedText).rest = ps_parser.acc
  /\ ps_last.events = <<>> \/ EndsWith(ps_events, ps_last.events)

\* C31 witness: a whole message with content came out of two calls
C31_Witness ==
  /\ ps_calls = 2
  /\ Len(ps_events) >= 4
  /\ ps_events[Len(ps_events)].type = "MessageEnd"
  /\ \E i \in 1..Len(ps_events) : ps_events[i].type = "ContentEmitted"
  /\ ps_parser.state = "LookingForMessageStart"

\* the events that are no ContentEmitted
Structural(evs) == SelectSeq(evs, LAMBDA e : e.type # "ContentEmitted")

RECURSIVE Gaps(_)
\* the content before the first structural event, between each two consecutive
\* ones and after the last one, each concatenated
Gaps(evs) ==
  IF evs = <<>> THEN << <<>> >>
  ELSE LET g == Gaps(Tail(evs))
       IN IF Head(evs).type = "ContentEmitted"
            THEN <<Head(evs).content \o g[1]>> \o Tail(g)
            ELSE << <<>> >> \o g

\* C35: for any partition of S into chunks the MessageStart, HeaderComplete
\* (with their headers) and MessageEnd events are those of feeding S at once,
\* and between each two consecutive ones the concatenated content is the same.
C35_ChunkInvarianceOfStructure ==
  AllFed => /\ Structural(ps_events) = Structural(WholeRun.events)
            /\ Gaps(ps_events) = Gaps(WholeRun.events)

\* C35 witness: the chunked run has more ContentEmitted events than the single
\* call, inside a message that was ended
C35_Witness ==
  /\ AllFed
  /\ Len(ps_events) > Len(WholeRun.events)
  /\ Len(Structural(ps_events)) >= 3


(***************************************************************************)
(* C32: the order in which a subturn extends the history.                  *)
(***************************************************************************)
\* what the subturn before Request i of the same turn appended to the history
Appended(i) ==
  SubSeq(rp_requests[i].messages, Len(rp_requests[i - 1].messages) + 1,
         Len(rp_requests[i].messages))

FollowsInTurn(i) == i > 1 /\ rp_requests[i - 1].turn = rp_requests[i].turn

OrderRank(msg) ==
  CASE msg.role = "Reasoning" -> 1
    [] msg.role = "Assistant" -> 2
    [] OTHER -> 3

\* Reasoning at most once, then Assistant at most once, then Tool messages
InStatedOrder(seg) ==
  \A j, k \in 1..Len(seg) :
    j < k => \/ OrderRank(seg[j]) < OrderRank(seg[k])
             \/ OrderRank(seg[j]) = 3 /\ OrderRank(seg[k]) = 3

IsParseError(msg) ==
  msg.role = "Tool" /\ \E e \in {<<"e">>} : msg.text = ParseErrorPayload(e)

\* C32: what a subturn appends, as seen in the next Request of the turn, is
\* Reasoning (if any), then Assistant (if any), and only after them the
\* tool_call_parse_error message or the Tool messages of the calls.
C32_ExtensionOrder ==
  \A i \in 1..Len(rp_requests) : FollowsInTurn(i) => InStatedOrder(Appended(i))

\* The order holds for the subturns without a parse error; with one, the
\* tool_call_parse_error message is first and nothing but Reasoning and
\* Assistant follows it.
ExtensionOrderAsCoded ==
  \A i \in 1..Len(rp_requests) :
    FollowsInTurn(i) =>
      LET seg == Appended(i)
      IN IF \E j \in 1..Len(seg) : IsParseError(seg[j])
           THEN /\ IsParseError(seg[1])
                /\ InStatedOrder(Tail(seg))
                /\ \A j \in 2..Len(seg) : seg[j].role # "Tool"
           ELSE InStatedOrder(seg)


(***************************************************************************)
(* C33: the clipping of the prompt.                                        *)
(***************************************************************************)
\* the tokens of a sequence
TokensOf(s) == {s[i] : i \in 1..Len(s)}

\* C33: a prompt of at most ctx_cap-1 tokens is returned unchanged; a longer one
\* comes back as its first keep = min(len, preamble_len) tokens followed by its
\* last ctx_cap-1-keep tokens: ctx_cap-1 tokens in all, the two parts apart, and
\* the tokens dropped are those between them.
C33_PromptClipping ==
  LET len  == Len(kv_toks)
      room == kv_ctx_cap - 1
      keep == SetMin({len, kv_preamble_len})
      tail == room - keep
  IN kv_pc # "done" \/ kv_toks # <<>> =>
       IF len <= room THEN kv_prompt_tokens = kv_toks
       ELSE /\ Len(kv_prompt_tokens) = room
            /\ tail >= 0
            /\ SubSeq(kv_prompt_tokens, 1, keep) = SubSeq(kv_toks, 1, keep)
            /\ SubSeq(kv_prompt_tokens, keep + 1, room) = SubSeq(kv_toks, len - tail + 1, len)
            /\ keep < len - tail + 1
            /\ TokensOf(kv_toks) \ TokensOf(kv_prompt_tokens)
                 = {kv_toks[i] : i \in (keep + 1)..(len - tail)}

\* C33 witness: a prompt over the limit came back with a preamble part, a tail
\* part and tokens dropped between them
C33_Witness ==
  /\ Len(kv_toks) > kv_ctx_cap - 1
  /\ kv_preamble_len >= 1
  /\ Len(kv_prompt_tokens) > kv_preamble_len
  /\ kv_prompt_tokens[kv_preamble_len + 1] > kv_preamble_len + 1


(***************************************************************************)
(* C34: a generation that fails inside the Hub.                            *)
(***************************************************************************)
\* the Hub left the session over a Request it read and wrote no Stop for
GenerationFailed == hub_pc = "err" /\ hub_reads > hub_stops

\* C34: when generation fails for a Request the Hub writes no Stop frame for it
\* and closes the connection, and the client's turn ends with an error: the
\* attempt that failed over it is not followed by the Request being sent again.
C34_GenerationFailureFatal ==
  [][/\ GenerationFailed => \A i \in 1..Len(hub_written) : hub_written[i].tag # "Stop"
     /\ GenerationFailed /\ pc = "failed" => pc' # "send"]_vars

\* The Hub's part: no Stop frame for the Request, and the session is over.
NoStopAfterFailedGeneration ==
  GenerationFailed => /\ \A i \in 1..Len(hub_written) : hub_written[i].tag # "Stop"
                      /\ ~hubOpen

\* The client's part as coded: the closed connection reads as a Disconnect, and
\* the turn ends with an error only once the attempts are used up or no new
\* connection is had.
FailedGenerationRetried ==
  [][GenerationFailed /\ pc = "failed" /\ is_disconnect(err) /\ pc' # "send"
       => GivesUp(attempt) \/ err' = ConnectErr]_vars


(***************************************************************************)
(* C36: what the parser holds back when the stream ends.                   *)
(***************************************************************************)
\* the text the two parsers of the subturn were given
StreamFed == ImplicitStart \o Flatten(SubSeq(rt_script, 1, rt_fed))

\* the content of all ContentEmitted events so far
EmittedContent ==
  Flatten([i \in 1..Len(rt_events) |->
             IF rt_events[i].type = "ContentEmitted" THEN rt_events[i].content ELSE <<>>])

\* the stream has ended inside a body with bytes held back
HeldBackAtStop ==
  /\ rt_flush.done
  /\ rt_sub.parser.state = "ParsingContent"
  /\ rt_sub.parser.acc # <<>>

\* C36: when Stop comes while the parser is in ParsingContent and retains a
\* non-empty proper prefix of the end tag, those bytes, at most
\* Len(EndTag) - 1 of them and the last of the stream, are in no event, hence
\* neither in the final answer nor in the answer, reasoning or tool JSON of the
\* router; everything before them is delivered.
C36_HeldBackContentLost ==
  HeldBackAtStop =>
    LET held == rt_sub.parser.acc
    IN /\ Len(held) <= Len(EndTag) - 1
       /\ StartsWith(EndTag, held)
       /\ EndsWith(StreamFed, held)
       /\ Located(rt_events, StreamFed) = [ok |-> TRUE, rest |-> held]
       /\ rt_sub.handler.parser = rt_sub.parser
       /\ Len(rt_sub.answer) + Len(rt_sub.reasoning) + Len(rt_sub.handler.acc)
            = Len(EmittedContent)
       /\ IsPrefix(rt_sub.final_answer, EmittedContent)
       /\ rt_fed = 2 =>
            rt_sub.answer \o rt_sub.reasoning \o rt_sub.handler.acc \o held = rt_script[2]
       /\ rt_flush.ok =>
            \A i \in 1..Len(rt_flush.calls) :
              rt_flush.calls[i].arguments = JsonValue(rt_sub.handler.acc)
       /\ ~rt_flush.ok => rt_flush.error = ParseErrorText(rt_sub.handler.acc)

\* C36 witness: the answer "a<" was cut by Stop; "a" is the final answer, "<" is
\* lost
C36_Witness ==
  /\ HeldBackAtStop
  /\ rt_fed = 2
  /\ rt_script[2] = <<"a", "<">>
  /\ rt_sub.parser.acc = <<"<">>
  /\ rt_sub.final_answer = <<"a">>
  /\ rt_sub.answer = <<"a">>

(***************************************************************************)
(* C37: the phase machine of the engine and the router.                    *)
(***************************************************************************)
\* a header with a recipient on a channel that is neither analysis nor commentary
OffChannelRecipient(h) == h.recipient # <<>> /\ h.channel \notin {Analysis, Commentary}

\* C37: as long as no header of the subturn has a recipient together with a
\* channel other than analysis or commentary, the engine's phase is the router's
\* state after every delta, their parsers are equal, and the final answer is the
\* router's answer text; right after such a header the engine is in ToolCalling
\* while the router is not and has no tool name.
C37_RoutingsAgree ==
  /\ (\A h \in HeadersSeen : ~OffChannelRecipient(h)) =>
       /\ rt_sub.phase = rt_sub.handler.state
       /\ rt_sub.parser = rt_sub.handler.parser
       /\ rt_sub.final_answer = rt_sub.answer
  /\ \A h \in HeadersSeen :
       OffChannelRecipient(h) /\ HeaderJustRead(h) =>
         /\ rt_sub.phase = "ToolCalling"
         /\ rt_sub.handler.state # "ToolCalling"
         /\ rt_sub.handler.name = NoName

\* C37 witness: reasoning and then a final answer were routed, and Stop came
C37_Witness ==
  /\ rt_flush.done
  /\ \A h \in HeadersSeen : ~OffChannelRecipient(h)
  /\ rt_sub.reasoning = <<"a">>
  /\ rt_sub.final_answer = <<"b">>
  /\ rt_sub.answer = <<"b">>

(***************************************************************************)
(* C38: the tool calls of one subturn.                                     *)
(***************************************************************************)
\* the first message is a tool call that was ended
FirstIsCall ==
  /\ rt_script[3] = EndTag
  /\ \E h \in HeadersSeen : /\ h.recipient = FunctionsPrefix \o ReadFile
                             /\ h.channel \in {Analysis, Commentary}

\* C38: the flush returns at most one ToolCall; when two tool-call messages
\* came, the JSON text is the concatenation of their bodies and the name is the
\* one of the later header; a tool call without any body gives a parse error
\* and no call.
C38_OneToolCall ==
  rt_flush.done =>
    /\ Len(rt_flush.calls) <= 1
    /\ (rt_fed = 4 /\ rt_script[4] = RouterSecondCall /\ FirstIsCall) =>
         /\ rt_sub.handler.acc = rt_script[2] \o <<"}">>
         /\ rt_sub.handler.name = SomeName(FunctionsPrefix \o ListFiles)
         /\ IF JsonParses(rt_sub.handler.acc)
              THEN rt_flush.ok /\ rt_flush.calls =
                     <<[name |-> ListFiles, arguments |-> JsonValue(rt_sub.handler.acc)]>>
              ELSE ~rt_flush.ok /\ rt_flush.calls = <<>>
    /\ (rt_sub.handler.name.some /\ rt_sub.handler.acc = <<>>) =>
         /\ ~rt_flush.ok
         /\ rt_flush.calls = <<>>
         /\ rt_flush.error = ParseErrorText(<<>>)

\* C38 witness: two tool-call messages, the first opening an object and the
\* second closing it, came out as one call of the second tool
C38_Witness ==
  /\ rt_flush.done
  /\ rt_fed = 4
  /\ rt_script[4] = RouterSecondCall
  /\ FirstIsCall
  /\ rt_script[2] = <<"{">>
  /\ rt_flush.ok
  /\ Len(rt_flush.calls) = 1
  /\ rt_flush.calls[1].name = ListFiles

\* a tool call without a body was flushed
EmptyCallFlushed ==
  /\ rt_flush.done
  /\ rt_sub.handler.name.some
  /\ rt_sub.handler.acc = <<>>
  /\ ~rt_flush.ok


(***************************************************************************)
(* C39: an Update op writes all of its hunks or nothing.                   *)
(***************************************************************************)
\* the op the loop of execute_patch_ops is about to execute is an update whose
\* file could be read or is not there
UpdateIsNext ==
  /\ px_pc = "ops"
  /\ px_next < Len(px_call.ops)
  /\ px_call.ops[px_next + 1].op = "update"
  /\ LET read == read_to_string(px_files, px_call.ops[px_next + 1].path)
     IN read.ok \/ read.kind = "NotFound"

\* the text the update starts from
TextBefore == read_to_string(px_files, px_call.ops[px_next + 1].path).text

\* C39: when at least one hunk of an Update op does not apply, the op writes
\* nothing and every file keeps its content, also when other hunks of the op
\* applied to the text in memory; when the op writes, every hunk applied and
\* what is written is the text after all of them.
C39_UpdateAllOrNothing ==
  [][UpdateIsNext =>
       LET op     == px_call.ops[px_next + 1]
           missed == MissedHunks(TextBefore, op.hunks, 0)
       IN /\ missed # {} =>
               /\ px_files' = px_files
               /\ px_wrote' = px_wrote
               /\ px_pc' = "panicked" \/ ~px_results'[px_next + 1].ok
          /\ (px_files' # px_files \/ px_wrote' # px_wrote) =>
               /\ missed = {}
               /\ px_results'[px_next + 1].ok
               /\ Len(px_wrote') = Len(px_wrote) + 1
               /\ px_wrote'[Len(px_wrote')].content =
                    set_trailing_newline(apply_all_hunks(TextBefore, op.hunks).text,
                                         ~op.no_newline)]_vars

\* C39 witness: the second op was an update of three hunks of which the second
\* applied and the others missed; the file is as the first op left it
C39_Witness ==
  /\ px_next = 2
  /\ px_call.ops[2].op = "update"
  /\ Len(px_call.ops[2].hunks) = 3
  /\ px_after[1][<<"x">>] # Missing
  /\ MissedHunks(px_after[1][<<"x">>], px_call.ops[2].hunks, 0) = {0, 2}
  /\ apply_hunk(px_after[1][<<"x">>], px_call.ops[2].hunks[2]).text # px_after[1][<<"x">>]
  /\ ~px_results[2].ok
  /\ Len(px_results[2].errors) = 2
  /\ px_after[2] = px_after[1]
  /\ px_files = px_after[1]

\* an update whose hunks all applied has written the file
UpdateWritten ==
  /\ px_next = 2
  /\ px_call.ops[2].op = "update"
  /\ px_results[2].ok
  /\ px_after[2] # px_after[1]


(***************************************************************************)
(* C40: tool calls and reconnects within one run_turn.                     *)
(***************************************************************************)
\* what a step appends to the history
AppendedBy(before, after) == SubSeq(after, Len(before) + 1, Len(after))

\* the Tool messages of a history
ToolMessagesIn(msgs) == {i \in 1..Len(msgs) : msgs[i].role = "Tool"}

\* C40: the calls of a flushed subturn are held only between the Stop that
\* produced them and the tool loop, which handles each of them once, appends one
\* Tool message per call and drops them; a failed attempt and the reconnect
\* leave the history as it is and hold no calls, so the Request after a
\* reconnect carries the recorded Tool messages and nothing is invoked or asked
\* again; at Stop the only Tool message appended is that of a parse error, with
\* no call to run.
C40_NoToolReexecution ==
  /\ [](/\ pc # "tools" => calls = <<>>
        /\ pc = "tools" => calls # <<>>)
  /\ [][/\ calls' # calls =>
             \/ pc = "stream" /\ pc' = "tools" /\ calls = <<>>
             \/ pc = "tools" /\ pc' = "send" /\ calls' = <<>>
        /\ pc = "tools" /\ pc' # "tools" =>
             /\ pc' = "send"
             /\ IsPrefix(messages, messages')
             /\ Len(AppendedBy(messages, messages')) = Len(calls)
             /\ \A i \in 1..Len(calls) :
                  \E a \in BOOLEAN : \E r \in InvokeResults(calls[i].name) :
                    AppendedBy(messages, messages')[i] = ToolMessage(calls[i], a, r)
        /\ pc = "stream" =>
             /\ IsPrefix(messages, messages')
             /\ ToolMessagesIn(AppendedBy(messages, messages')) # {} =>
                  flush' = "parse_error" /\ calls' = <<>> /\ pc' = "send"
        /\ pc \notin {"tools", "stream"} => messages' = messages
        /\ pc = "failed" /\ pc' = "send" =>
             /\ attempt' = attempt + 1
             /\ calls' = <<>>
             /\ ToolMessagesIn(messages') = ToolMessagesIn(messages)
        /\ pc = "send" /\ pc' = "stream" =>
             /\ last_request' = messages
             /\ calls' = <<>>]_vars

\* C40 witness: a tool ran in the first subturn, the connection was lost in the
\* second, and the Request after the reconnect carries the one Tool message
C40_Witness ==
  /\ attempt > 0
  /\ pc = "stream"
  /\ calls = <<>>
  /\ last_request = messages
  /\ Len(messages) = Len(history0) + 1
  /\ messages[Len(messages)].role = "Tool"
  /\ \E a \in BOOLEAN : \E r \in InvokeResults(RunCommand) :
       messages[Len(messages)] =
         ToolMessage([name |-> RunCommand, arguments |-> JsonValue(<<"{", "}">>)], a, r)

====
